---- MODULE Spec2Model ----
(***************************************************************************)
(* Election analytics API: the result store (schema.sql), the metric       *)
(* handlers of electionController.js and the route layer of elections.js.  *)
(* The store is a bag of result rows over small dimension tables; every    *)
(* handler is an action that reads the store and writes the response.      *)
(***************************************************************************)
EXTENDS Integers, Sequences, FiniteSets, TLC

VARIABLES store, partyType, education, op, req, resp, status, queries,
          xValues, yValues, correlation,
          isConnected, available, connects,
          pending, promises, sent,
          db, ran,
          url, rendered, mountParams, years, options,
          component, loading, data, flight, page,
          statement, bindings

\* the arguments and the result of a call of calculateCorrelation
calcVars == <<xValues, yValues, correlation>>

\* isConnected of connection.js, whether the database file can be opened and
\* queried, and the calls of connect() made for the request at hand
connVars == <<isConnected, available, connects>>

\* the rows whose secondary query is still to be issued, the promises of the
\* queries issued, and the responses written for the request at hand
fanVars == <<pending, promises, sent>>

\* db of connection.js and the last call of an exported operation of the
\* module; the handle is followed in the runs of the module alone
handleVars == <<db, ran>>

\* the browser: the search parameters of the URL, the ones of the last render
\* whose effects have run, the ones the Header saw at mount, the years and the
\* state of the option lists of the Header; one dashboard component with its
\* loading flag, its data, its requests in flight and (MarginsTable) its page
clientVars == <<url, rendered, mountParams, years, options,
                component, loading, data, flight, page>>

\* a statement a controller built with its parameters, and the list
\* convertToSQLite returned for it; followed in the runs of the conversion alone
convertVars == <<statement, bindings>>

\* the variables of the other parts of the system, which the handlers of the
\* API leave alone
restVars == <<handleVars, clientVars, convertVars>>

\* what the browser leaves alone
serverVars == <<store, partyType, education, op, req, resp, status, queries,
                calcVars, connVars, fanVars, handleVars, convertVars>>

vars == <<store, partyType, education, op, req, resp, status, queries,
          calcVars, connVars, fanVars, restVars>>

\* SQL NULL in a numeric column (the stored numbers are positive)
NULL == -1
\* SQL NULL in a text column
NullText == "NULL"
\* a numeric query-string parameter that was not sent (undefined in req.query)
ABSENT == 0
\* a text query-string parameter that was not sent
NoText == ""

-----------------------------------------------------------------------------
(* Bounds of the model *)

\* copies of the padding row a year can hold besides its contest rows
BulkRows == 999
\* a statement built filter by filter has at most MaxParams parameters
MaxParams == 4
\* a component has at most MaxFlight requests in flight
MaxFlight == 2
\* the stores of the limit runs hold at most MaxContests contests
MaxContests == 12
\* the runs of the connection module make at most MaxCalls calls of its
\* exported operations
MaxCalls == 3
\* the lists given to calculateCorrelation hold at most MaxLen numbers
MaxLen == 3
\* each of them in 0..MaxSample
MaxSample == 2
\* votes of a result row range over 1..MaxVotes (or NULL)
MaxVotes == 2
\* margin_percentage of a winner row ranges over 1..MaxMargin (or NULL)
MaxMargin == 2
\* turnout_percentage of a result row ranges over 1..MaxTurnout (or NULL)
MaxTurnout == 2

\* HAVING COUNT(r2.id) >= 1000
MinYearRows == 1000
\* LIMIT 10 of getClosestContests, default limit of getMargins
DefaultLimit == 10
\* default limit of getElections
DefaultPageSize == 100

-----------------------------------------------------------------------------
(* Dimension tables (schema.sql); they are fixed after the import *)

\* states(id, name UNIQUE)
States == {1, 2}
StateName == [s \in States |-> IF s = 1 THEN "Goa" ELSE "Kerala"]

\* parties(id, name UNIQUE)
Parties == {1, 2}
PartyName == [p \in Parties |-> IF p = 1 THEN "BJP" ELSE "INC"]

\* the values parties.party_type_tcpd takes, NULL among them
PartyTypes == {"National Party", "regional", "State Party", "Regional (ex-National)", NullText}
\* parties.party_type_tcpd of the stores that do not vary it
ImportedPartyType == [p \in Parties |-> IF p = 1 THEN "National Party" ELSE NullText]

\* constituencies(id, state_id, name, constituency_no); 1 and 2 share a name
Constituencies ==
  [c \in {1, 2, 3} |->
     CASE c = 1 -> [state_id |-> 1, name |-> "Agra",  constituency_no |-> 1]
       [] c = 2 -> [state_id |-> 2, name |-> "Agra",  constituency_no |-> 2]
       [] c = 3 -> [state_id |-> 2, name |-> "Bidar", constituency_no |-> 1]]

\* elections(id, year): a year may hold several election rows (polls)
Elections == [e \in {1, 2, 3, 4, 5} |-> IF e >= 3 THEN 2019 ELSE 2014]
Years == {Elections[e] : e \in DOMAIN Elections}

\* the values candidates.myneta_education takes: NULL (the import stores the
\* empty text as NULL), blanks, and levels written with and without blanks
\* around them
Educations == {NullText, "  ", "Graduate", " Graduate ", "10th Pass"}
\* candidates.myneta_education of the stores that do not vary it
ImportedEducation == [k \in {1, 2, 3} |-> IF k = 3 THEN NullText ELSE "Graduate"]

\* candidates(id, name, sex)
Candidates ==
  [k \in {1, 2, 3} |->
     CASE k = 1 -> [name |-> "Ravi",  sex |-> "M"]
       [] k = 2 -> [name |-> "Asha",  sex |-> "F"]
       [] k = 3 -> [name |-> "Kiran", sex |-> NullText]]

\* text collation used by ORDER BY on the names of the tables above
Collate(s) ==
  CASE s = "Agra" -> 1 [] s = "Bidar" -> 2
    [] s = "Asha" -> 1 [] s = "Kiran" -> 2 [] s = "Ravi" -> 3
    [] s = "BJP" -> 1 [] s = "INC" -> 2
    [] s = "Goa" -> 1 [] s = "Kerala" -> 2
    [] s = "F" -> 1 [] s = "M" -> 2
    [] s = "National" -> 1 [] s = "Other" -> 2 [] s = "Regional" -> 3
    [] OTHER -> 0

\* a row of results: the foreign keys and the measures the metrics read
ResultRow(e, c, k, p, pos, v, t, m, vs) ==
  [election_id |-> e, constituency_id |-> c, candidate_id |-> k, party_id |-> p,
   position |-> pos, votes |-> v, turnout_percentage |-> t, margin_percentage |-> m,
   vote_share_percentage |-> vs]

\* the row a year is padded with: a lower-ranked candidate without measures
PadRow(y) ==
  ResultRow(CHOOSE e \in DOMAIN Elections : Elections[e] = y /\
                \A f \in DOMAIN Elections : Elections[f] = y => e <= f,
            3, 3, 2, 3, NULL, NULL, NULL, NULL)

-----------------------------------------------------------------------------
(* Generic helpers: sums over finite sets, sorted sequences *)

RECURSIVE SumOver(_, _)
SumOver(S, f) ==
  IF S = {} THEN 0
  ELSE LET x == CHOOSE x \in S : TRUE IN f[x] + SumOver(S \ {x}, f)

\* s[i] + ... + s[Len(s)]
RECURSIVE SumSeq(_, _)
SumSeq(s, i) == IF i > Len(s) THEN 0 ELSE s[i] + SumSeq(s, i + 1)

\* all sequences that list every element of S once
RECURSIVE Orderings(_)
Orderings(S) ==
  IF S = {} THEN {<<>>}
  ELSE UNION {{<<x>> \o s : s \in Orderings(S \ {x})} : x \in S}


\* lexicographic order on tuples of numbers, NULL (-1) first as in SQLite
LexLess(a, b) ==
  \E i \in 1..Len(a) : a[i] < b[i] /\ \A j \in 1..(i - 1) : a[j] = b[j]

\* S as a sequence ascending in key, ties broken arbitrarily but fixed
RECURSIVE SortBy(_, _)
SortBy(S, key) ==
  IF S = {} THEN <<>>
  ELSE LET m == CHOOSE x \in S : \A y \in S : ~LexLess(key[y], key[x])
       IN <<m>> \o SortBy(S \ {m}, key)

\* every sequence an ORDER BY on key may return for the rows S
RECURSIVE SortedOrderings(_, _)
SortedOrderings(S, key) ==
  IF S = {} THEN {<<>>}
  ELSE UNION {{<<m>> \o t : t \in SortedOrderings(S \ {m}, key)} :
                m \in {x \in S : \A y \in S : ~LexLess(key[y], key[x])}}

\* the store is a bag of result rows: a function from row to number of copies
EmptyStore == << >>
Rows(st) == DOMAIN st
Copies(st, r) == st[r]
BagSum(a, b) ==
  [x \in DOMAIN a \cup DOMAIN b |->
     (IF x \in DOMAIN a THEN a[x] ELSE 0) + (IF x \in DOMAIN b THEN b[x] ELSE 0)]

\* COUNT over the rows of R, a set of distinct rows of the bag st
CountRows(st, R) == SumOver(R, [r \in R |-> Copies(st, r)])

\* the joins of a result row to its dimension rows
YearOf(r) == Elections[r.election_id]
StateOf(r) == Constituencies[r.constituency_id].state_id
StateNameOf(r) == StateName[StateOf(r)]
DistrictOf(r) == Constituencies[r.constituency_id].name
ConstNoOf(r) == Constituencies[r.constituency_id].constituency_no
PartyOf(r) == PartyName[r.party_id]
SexOf(r) == Candidates[r.candidate_id].sex
CandNameOf(r) == Candidates[r.candidate_id].name

-----------------------------------------------------------------------------
(* Requests and responses *)

\* req.query with no parameter sent
NoQuery ==
  [year |-> ABSENT, state |-> ABSENT, party |-> ABSENT, gender |-> NoText,
   district |-> ABSENT, constituency |-> ABSENT, aggregate |-> NoText,
   limit |-> ABSENT, year1 |-> ABSENT, year2 |-> ABSENT,
   offset |-> ABSENT, constituencyLike |-> NoText]

\* res.status(s).json(b) after n calls of queryWithCheck; a body is the
\* sequence of the rows of a JSON array
Reply(s, b, n) == [status |-> s, body |-> b, queries |-> n]

\* the body of res.json(o) for a single JSON object o: its one row
Object(o) == <<o>>

\* return res.status(400).json({ error: 'Year parameter is required' })
YearRequired == Reply(400, Object([error |-> "Year parameter is required"]), 0)

\* validateYear: year is optional, and an integer in 1950..2100 when sent
validateYear(q) == q.year = ABSENT \/ (q.year >= 1950 /\ q.year <= 2100)

\* the 400 of a validator: res.status(400).json({ errors: errors.array() })
ValidationFailed == Reply(400, Object([errors |-> "validation"]), 0)

-----------------------------------------------------------------------------
(* queryWithCheck, asyncHandler and errorHandler *)

\* the code of the error better-sqlite3 throws on a database it cannot read
SqliteError == "SQLITE_BUSY"

\* one call of queryWithCheck: connect() is tried when isConnected is false
\* and rejects with DB_NOT_CONNECTED when it fails; the statement then runs
\* and rejects with the error it throws. error is NoText when it resolves.
queryWithCheck(connected, avail) ==
  IF ~connected
  THEN IF avail THEN [connected |-> TRUE, attempts |-> 1, error |-> NoText]
       ELSE [connected |-> FALSE, attempts |-> 1, error |-> "DB_NOT_CONNECTED"]
  ELSE IF avail THEN [connected |-> TRUE, attempts |-> 0, error |-> NoText]
       ELSE [connected |-> TRUE, attempts |-> 0, error |-> SqliteError]

\* errorHandler: the response to an error passed to next(), after n calls
errorHandler(code, n) ==
  IF code = "DB_NOT_CONNECTED"
  THEN Reply(503, Object([error |-> "Database not available", code |-> code]), n)
  ELSE IF code = SqliteError
  THEN Reply(500, Object([error |-> "Database error", code |-> code]), n)
  ELSE Reply(500, Object([error |-> "Something went wrong!", code |-> code]), n)

\* handlers that also send a DELETE
StatementVerbs_WithDelete(name) == {"SELECT", "DELETE"}

\* the first words of the SQL texts the handler of a route passes to
\* queryWithCheck: every handler of electionController.js sends SELECTs only
StatementVerbs(name) == {"SELECT"}

\* the branch queryWithCheck takes on trimmedSql.startsWith('SELECT'):
\* stmt.all() reads the rows, stmt.run() executes a statement that changes them
StoreAfter(name, st) ==
  IF StatementVerbs(name) \subseteq {"SELECT"} THEN st
  ELSE EmptyStore

\* the calls of queryWithCheck a handler has made when it sees its first
\* result: one awaited call, but the three of Promise.all([...]) in getKPIs
\* when no district lookup comes first
FirstBatch(name, q) ==
  IF name = "getKPIs" /\ q.district = ABSENT THEN 3 ELSE 1

\* what the request gets and leaves behind when the handler, were every
\* query to resolve, would answer out
Outcome(name, q, out, connected, avail) ==
  IF out.queries = 0
  THEN [reply |-> out, connected |-> connected, connects |-> 0]
  ELSE LET first == queryWithCheck(connected, avail)
       IN IF first.error = NoText
          THEN [reply |-> out, connected |-> TRUE, connects |-> first.attempts]
          ELSE [reply |-> errorHandler(first.error, FirstBatch(name, q)),
                connected |-> first.connected,
                connects |-> first.attempts * FirstBatch(name, q)]

-----------------------------------------------------------------------------
(* connection.js: the handle db and the exported operations *)

\* let db = null, then what new Database(dbPath) returned: a handle the test
\* query of connect() has verified ("open"), one it has not ("unverified"),
\* or one that close() has closed
Handles == {"null", "open", "unverified", "closed"}

\* no exported operation has been called
NoOperation ==
  [operation |-> "none", verb |-> NoText, handle |-> "none", connected |-> FALSE,
   error |-> NoText]

\* connect(): the handle and isConnected it leaves. When the file cannot be
\* read either new Database throws, and db keeps its value, or a statement
\* after it throws, and db is the new handle; the catch sets isConnected false
connect(handle, avail) ==
  IF avail THEN {[db |-> "open", isConnected |-> TRUE]}
  ELSE {[db |-> handle, isConnected |-> FALSE],
        [db |-> "unverified", isConnected |-> FALSE]}

\* db.prepare(sql) and the run of the statement on the handle: a TypeError on
\* null and on a closed handle, the error of SQLite when the file cannot be read
Statement(handle, avail) ==
  IF handle \in {"null", "closed"} THEN "TypeError"
  ELSE IF avail THEN NoText ELSE SqliteError

\* queryWithCheck(sql, params) for a statement that begins with verb; queries
\* counts the calls of the exported operations
HandleQuery ==
  \E verb \in {"SELECT", "INSERT"} :
    \E c \in IF ~isConnected \/ db = "null" THEN connect(db, available)
              ELSE {[db |-> db, isConnected |-> isConnected]} :
      /\ queries < MaxCalls
      /\ queries' = queries + 1
      /\ db' = c.db
      /\ isConnected' = c.isConnected
      /\ connects' = IF ~isConnected \/ db = "null" THEN 1 ELSE 0
      /\ ran' = IF (~isConnected \/ db = "null") /\ ~c.isConnected
                THEN [operation |-> "queryWithCheck", verb |-> verb, handle |-> "none",
                      connected |-> FALSE, error |-> "DB_NOT_CONNECTED"]
                ELSE [operation |-> "queryWithCheck", verb |-> verb, handle |-> c.db,
                      connected |-> c.isConnected, error |-> Statement(c.db, available)]
      /\ UNCHANGED <<store, partyType, education, op, req, resp, status,
                     calcVars, available, fanVars, clientVars, convertVars>>

\* prepare: (sql) => { if (!isConnected || !db) connect(); return db.prepare(sql); }
HandlePrepare ==
  \E c \in IF ~isConnected \/ db = "null" THEN connect(db, available)
            ELSE {[db |-> db, isConnected |-> isConnected]} :
    /\ queries < MaxCalls
    /\ queries' = queries + 1
    /\ db' = c.db
    /\ isConnected' = c.isConnected
    /\ connects' = IF ~isConnected \/ db = "null" THEN 1 ELSE 0
    /\ ran' = [operation |-> "prepare", verb |-> "SELECT", handle |-> c.db,
               connected |-> c.isConnected, error |-> Statement(c.db, available)]
    /\ UNCHANGED <<store, partyType, education, op, req, resp, status,
                   calcVars, available, fanVars, clientVars, convertVars>>

\* close: () => { if (db) { db.close(); isConnected = false; } }
HandleClose ==
  /\ queries < MaxCalls
  /\ queries' = queries + 1
  /\ db' = IF db = "null" THEN db ELSE "closed"
  /\ isConnected' = IF db = "null" THEN isConnected ELSE FALSE
  /\ connects' = 0
  /\ ran' = [NoOperation EXCEPT !.operation = "close"]
  /\ UNCHANGED <<store, partyType, education, op, req, resp, status,
                 calcVars, available, fanVars, clientVars, convertVars>>

-----------------------------------------------------------------------------
(* Valid years and district resolution *)

\* validYearsFilter: the years holding at least 1000 result rows
validYearsFilter(st) ==
  {y \in Years : CountRows(st, {r \in Rows(st) : YearOf(r) = y}) >= MinYearRows}

\* a lookup that answers a name no constituency carries when the id is unknown
districtNameOf_Nowhere(district) ==
  IF district = ABSENT THEN NullText
  ELSE IF district \in DOMAIN Constituencies THEN Constituencies[district].name
  ELSE NoText

\* SELECT name FROM constituencies WHERE id = $1; null when no row or no district
districtNameOf(district) ==
  IF district # ABSENT /\ district \in DOMAIN Constituencies
  THEN Constituencies[district].name
  ELSE NullText

\* the lookup query runs whenever the district parameter was sent
districtLookups(district) == IF district # ABSENT THEN 1 ELSE 0

-----------------------------------------------------------------------------
(* getSeatShare *)

\* the seat count query without its position = 1 condition
SeatCountWhere_AnyPosition(st, vy, q, dn) ==
  {r \in Rows(st) :
     /\ YearOf(r) = q.year /\ YearOf(r) \in vy
     /\ (q.state # ABSENT => StateOf(r) = q.state)
     /\ (dn # NullText => DistrictOf(r) = dn)
     /\ (q.constituency # ABSENT => r.constituency_id = q.constituency)
     /\ (q.party # ABSENT => r.party_id = q.party)
     /\ (q.gender # NoText => SexOf(r) = q.gender)}

\* the seat count query with the district matched on the id, not on the name
SeatCountWhere_ById(st, vy, q, dn) ==
  {r \in Rows(st) :
     /\ YearOf(r) = q.year /\ YearOf(r) \in vy /\ r.position = 1
     /\ (q.state # ABSENT => StateOf(r) = q.state)
     /\ (dn # NullText => r.constituency_id = q.district)
     /\ (q.constituency # ABSENT => r.constituency_id = q.constituency)
     /\ (q.party # ABSENT => r.party_id = q.party)
     /\ (q.gender # NoText => SexOf(r) = q.gender)}

\* WHERE of the seat count query, built from the filters that were sent
SeatCountWhere(st, vy, q, dn) ==
  {r \in Rows(st) :
     /\ YearOf(r) = q.year /\ YearOf(r) \in vy /\ r.position = 1
     /\ (q.state # ABSENT => StateOf(r) = q.state)
     /\ (dn # NullText => DistrictOf(r) = dn)
     /\ (q.constituency # ABSENT => r.constituency_id = q.constituency)
     /\ (q.party # ABSENT => r.party_id = q.party)
     /\ (q.gender # NoText => SexOf(r) = q.gender)}

\* WHERE of the winner query issued for one party row of the count query
SeatWinnerWhere(st, vy, q, dn, party) ==
  {r \in Rows(st) :
     /\ YearOf(r) = q.year /\ YearOf(r) \in vy /\ r.position = 1
     /\ PartyOf(r) = party
     /\ (q.state # ABSENT => StateOf(r) = q.state)
     /\ (dn # NullText => DistrictOf(r) = dn)
     /\ (q.constituency # ABSENT => r.constituency_id = q.constituency)}

\* GROUP BY p.name with COUNT(*)
SeatCounts(st, matched) ==
  {[party |-> n, seats |-> CountRows(st, {r \in matched : PartyOf(r) = n})] :
     n \in {PartyOf(r) : r \in matched}}

\* the winner rows in ORDER BY c.name, c.constituency_no, cand.name
WinnerRows(W) ==
  LET sorted == SortBy(W, [r \in W |->
                    <<Collate(DistrictOf(r)), ConstNoOf(r), Collate(CandNameOf(r))>>])
  IN [i \in 1..Len(sorted) |->
        [constituency_id |-> sorted[i].constituency_id,
         district_name   |-> DistrictOf(sorted[i]),
         constituency_no |-> ConstNoOf(sorted[i]),
         winner_name     |-> CandNameOf(sorted[i]),
         candidate_id    |-> sorted[i].candidate_id]]

\* districtMap[districtKey].push(name), a new key going last (Object.keys order)
AddWinner(dmap, d, name) ==
  IF \E j \in 1..Len(dmap) : dmap[j].district = d
  THEN [j \in 1..Len(dmap) |->
          IF dmap[j].district = d
          THEN [dmap[j] EXCEPT !.winners = Append(@, name)]
          ELSE dmap[j]]
  ELSE Append(dmap, [district |-> d, winners |-> <<name>>])

\* winnerResult.rows.forEach: skip a seen constituency_id + candidate_id, else add.
\* Copies of one store row share the key, so the loop visits each row once.
RECURSIVE GroupWinners(_, _, _, _)
GroupWinners(ws, i, seenWinners, dmap) ==
  IF i > Len(ws) THEN dmap
  ELSE LET uniqueKey == <<ws[i].constituency_id, ws[i].candidate_id>>
       IN IF uniqueKey \in seenWinners
          THEN GroupWinners(ws, i + 1, seenWinners, dmap)
          ELSE GroupWinners(ws, i + 1, seenWinners \cup {uniqueKey},
                            AddWinner(dmap, ws[i].district_name, ws[i].winner_name))

\* one element of rowsWithWinners
WithWinners(st, vy, q, dn, row) ==
  [party |-> row.party, seats |-> row.seats,
   winnersByDistrict |->
     GroupWinners(WinnerRows(SeatWinnerWhere(st, vy, q, dn, row.party)), 1, {}, <<>>)]

\* the handler: every reply it may give (ties of ORDER BY seats DESC in any order)
getSeatShare(st, q) ==
  IF q.year = ABSENT THEN {YearRequired}
  ELSE LET vy == validYearsFilter(st)
           dn == districtNameOf(q.district)
           counts == SeatCounts(st, SeatCountWhere(st, vy, q, dn))
       IN {Reply(200, [i \in 1..Len(s) |-> WithWinners(st, vy, q, dn, s[i])],
                 districtLookups(q.district) + 1 + Len(s)) :
             s \in SortedOrderings(counts, [x \in counts |-> <<0 - x.seats>>])}

-----------------------------------------------------------------------------
(* convertToSQLite and getSeatChanges *)

\* the parameters pushed for the placeholders ph[i..], in textual order
RECURSIVE PushParams(_, _, _)
PushParams(ph, params, i) ==
  IF i > Len(ph) THEN <<>>
  ELSE (IF ph[i] - 1 < Len(params) THEN <<params[ph[i]]>> ELSE <<>>)
       \o PushParams(ph, params, i + 1)

\* binding that takes the parameters in turn, whatever number a placeholder bears
convertToSQLite_InTurn(ph, params) ==
  [i \in 1..Len(ph) |-> params[((i - 1) % Len(params)) + 1]]

\* convertToSQLite: ph lists the numbers of the $k placeholders of the sql text in
\* textual order; each becomes a positional ? bound to the returned list in order
convertToSQLite(ph, params) ==
  LET convertedParams == PushParams(ph, params, 1)
  IN IF Len(convertedParams) > 0 THEN convertedParams ELSE params

\* the marks of a statement in textual order: k for the placeholder $k, 0 for
\* a ? written in the text itself
LiteralMark == 0

\* the $k placeholders among the marks, which the replace callback visits
Placeholders(marks) == SelectSeq(marks, LAMBDA k : k # LiteralMark)

\* a statement built filter by filter: $1 .. $n, one parameter pushed for each
\* (paramCount++ after each push)
Sequential(n) == [i \in 1..n |-> i]

\* the placeholders of the seat-changes statement: $1, $2, $2, $1
SeatChangesPlaceholders == <<1, 2, 2, 1>>

\* getVoteShareByParty: (SUM(r.votes) * 100.0 / ?) ... WHERE e.year = $1, with
\* the parameters [totalVotes, parseInt(year)]
VoteShareByPartyMarks == <<LiteralMark, 1>>

\* the values of the parameters
ParamValues == {1, 2014, 2019}

\* the statements the controllers build, each with parameter lists of the
\* length the controller pushes
Statements ==
  UNION {[marks : {Sequential(n)}, params : [1..n -> ParamValues]] : n \in 0..MaxParams}
  \cup [marks : {SeatChangesPlaceholders, VoteShareByPartyMarks}, params : [1..2 -> ParamValues]]

\* no statement is at hand
NoStatement == [marks |-> <<NULL>>, params |-> <<>>]

\* convertToSQLite has not been called
Unbound == <<NULL>>

\* queryWithCheck converts the statement: every mark is a ? of the converted
\* text, and bindings is the list handed to stmt.all / stmt.run
Convert ==
  /\ bindings = Unbound
  /\ statement # NoStatement
  /\ bindings' = convertToSQLite(Placeholders(statement.marks), statement.params)
  /\ UNCHANGED <<store, partyType, education, op, req, resp, status, queries,
                 calcVars, connVars, fanVars, handleVars, clientVars, statement>>

\* SELECT p.name as party, COUNT(*) as seats ... WHERE e.year = ? AND r.position = 1
\* GROUP BY p.name, under validYearsFilter
SeatsOfYear(st, vy, y) ==
  SeatCounts(st, {r \in Rows(st) : YearOf(r) = y /\ YearOf(r) \in vy /\ r.position = 1})

\* the seat changes as the first LEFT JOIN alone gives them
SeatChangeRows_LeftJoinOnly(st, bound) ==
  LET vy == validYearsFilter(st)
      y1 == SeatCounts(st, {r \in Rows(st) :
                YearOf(r) = bound[1] /\ YearOf(r) \in vy /\ r.position = 1})
      y2 == SeatCounts(st, {r \in Rows(st) :
                YearOf(r) = bound[2] /\ YearOf(r) \in vy /\ r.position = 1})
      coalesce(S, party) ==
        IF \E x \in S : x.party = party
        THEN (CHOOSE x \in S : x.party = party).seats
        ELSE 0
  IN {[party |-> a.party, year1_seats |-> a.seats,
       year2_seats |-> coalesce(y2, a.party),
       change |-> coalesce(y2, a.party) - a.seats] : a \in y1}

\* y1 LEFT JOIN y2 UNION (y2 LEFT JOIN y1 WHERE y1.party IS NULL) ORDER BY change DESC
SeatChangeRows(st, bound) ==
  LET vy == validYearsFilter(st)
      y1 == SeatsOfYear(st, vy, bound[1])
      y2 == SeatsOfYear(st, vy, bound[2])
      z2 == SeatsOfYear(st, vy, bound[3])
      z1 == {x.party : x \in SeatsOfYear(st, vy, bound[4])}
      coalesce(S, party) ==
        IF \E x \in S : x.party = party
        THEN (CHOOSE x \in S : x.party = party).seats
        ELSE 0
      first == {[party |-> a.party, year1_seats |-> a.seats,
                 year2_seats |-> coalesce(y2, a.party),
                 change |-> coalesce(y2, a.party) - a.seats] : a \in y1}
      second == {[party |-> b.party, year1_seats |-> 0, year2_seats |-> b.seats,
                  change |-> b.seats] : b \in {x \in z2 : x.party \notin z1}}
  IN first \cup second

getSeatChanges(st, q) ==
  IF q.year1 = ABSENT \/ q.year2 = ABSENT
  THEN {Reply(400, Object([error |-> "Both year1 and year2 parameters are required"]), 0)}
  ELSE LET bound == convertToSQLite(SeatChangesPlaceholders, <<q.year1, q.year2>>)
           rows == SeatChangeRows(st, bound)
       IN {Reply(200, s, 1) :
             s \in SortedOrderings(rows, [x \in rows |-> <<0 - x.change>>])}

\* validateSeatChanges: year1 and year2 both sent and integers in 1950..2100
validateSeatChanges(q) ==
  /\ q.year1 # ABSENT /\ q.year1 >= 1950 /\ q.year1 <= 2100
  /\ q.year2 # ABSENT /\ q.year2 >= 1950 /\ q.year2 <= 2100

-----------------------------------------------------------------------------
(* Numbers that are not integers: a quotient is kept as numerator and divisor *)

\* the value num / den of a JavaScript or SQL division
Frac(n, d) == [num |-> n, den |-> d]

\* the product of the divisors of a set of records, by the field getter den
RECURSIVE ProductOf(_, _)
ProductOf(S, den) ==
  IF S = {} THEN 1
  ELSE LET x == CHOOSE x \in S : TRUE IN den[x] * ProductOf(S \ {x}, den)

\* SUM(col) over the rows R: NULL when no row has a value, NULLs are skipped
SumCol(st, R, col) ==
  LET V == {r \in R : col[r] # NULL}
  IN IF V = {} THEN NULL ELSE SumOver(V, [r \in V |-> Copies(st, r) * col[r]])

\* a quotient that is SQL NULL or JavaScript null
NullFrac == [num |-> 0, den |-> 0]

\* AVG(col) over the rows R: NULL when no row has a value
AvgCol(st, R, col) ==
  LET V == {r \in R : col[r] # NULL}
  IN IF V = {} THEN NullFrac ELSE Frac(SumCol(st, R, col), CountRows(st, V))

\* x || 0 on a quotient: null and zero both give 0
\* the value as the query returned it, null kept
OrZero_KeepNull(x) == x

OrZero(x) == IF x.den = 0 \/ x.num = 0 THEN Frac(0, 1) ELSE x

\* the first n elements of s (LIMIT n)
Limit(s, n) == SubSeq(s, 1, IF Len(s) < n THEN Len(s) ELSE n)

\* sort key of a quotient among the quotients of S: its value times every divisor
FracKey(x, D) == IF x.den = 0 THEN NULL ELSE x.num * (D \div x.den)

-----------------------------------------------------------------------------
(* getVoteShare *)

\* whereClause of the aggregate branch
VoteShareWhere(st, vy, q, dn) ==
  {r \in Rows(st) :
     /\ YearOf(r) = q.year /\ YearOf(r) \in vy /\ r.votes # NULL
     /\ (q.state # ABSENT => StateOf(r) = q.state)
     /\ (dn # NullText => DistrictOf(r) = dn)
     /\ (q.constituency # ABSENT => r.constituency_id = q.constituency)
     /\ (q.gender # NoText => SexOf(r) = q.gender)}

\* the total taken over every row of the store instead of the filtered rows
TotalVotes_Global(st, R) ==
  LET total == SumCol(st, Rows(st), [r \in Rows(st) |-> r.votes])
  IN IF total = NULL \/ total = 0 THEN 1 ELSE total

\* totalVotesResult.rows[0]?.total_votes || 1
TotalVotes(st, R) ==
  LET total == SumCol(st, R, [r \in R |-> r.votes])
  IN IF total = NULL \/ total = 0 THEN 1 ELSE total

\* SELECT p.name as party, SUM(r.votes) as total_votes ... GROUP BY p.name
VotesByParty(st, R) ==
  {[party |-> n,
    total_votes |-> SumCol(st, {r \in R : PartyOf(r) = n},
                           [r \in {x \in R : PartyOf(x) = n} |-> r.votes])] :
     n \in {PartyOf(r) : r \in R}}

\* rowsWithPercentage: vote_share_pct = total_votes * 100.0 / totalVotes
WithVoteSharePct(row, totalVotes) ==
  [party |-> row.party, total_votes |-> row.total_votes,
   vote_share_pct |-> Frac(row.total_votes * 100, totalVotes)]

\* the by-state branch: GROUP BY s.name, p.name under the year and party filters
VotesByStateParty(st, vy, q) ==
  LET R == {r \in Rows(st) :
              /\ YearOf(r) = q.year /\ YearOf(r) \in vy
              /\ (q.party # ABSENT => r.party_id = q.party)}
      group(sn, pn) == {r \in R : StateNameOf(r) = sn /\ PartyOf(r) = pn}
  IN {[state |-> k[1], party |-> k[2],
       total_votes |-> SumCol(st, group(k[1], k[2]),
                              [r \in group(k[1], k[2]) |-> r.votes]),
       avg_vote_share |-> AvgCol(st, group(k[1], k[2]),
                              [r \in group(k[1], k[2]) |-> r.vote_share_percentage])] :
        k \in {<<StateNameOf(r), PartyOf(r)>> : r \in R}}

getVoteShare(st, q) ==
  IF q.year = ABSENT THEN {YearRequired}
  ELSE IF q.aggregate = "true" \/ q.aggregate = "1"
  THEN LET vy == validYearsFilter(st)
           dn == districtNameOf(q.district)
           R == VoteShareWhere(st, vy, q, dn)
           totalVotes == TotalVotes(st, R)
           rows == VotesByParty(st, R)
       IN {Reply(200, [i \in 1..Len(s) |-> WithVoteSharePct(s[i], totalVotes)],
                 districtLookups(q.district) + 2) :
             s \in SortedOrderings(rows, [x \in rows |-> <<0 - x.total_votes>>])}
  ELSE LET rows == VotesByStateParty(st, validYearsFilter(st), q)
       IN {Reply(200, s, 1) :
             s \in SortedOrderings(rows, [x \in rows |->
                     <<Collate(x.state),
                       IF x.total_votes = NULL THEN 1 ELSE 0 - x.total_votes>>])}

-----------------------------------------------------------------------------
(* getGenderTrend *)

\* WHERE cand.sex IS NOT NULL under validYearsFilter and the filters sent
GenderTrendWhere(st, vy, q, dn) ==
  {r \in Rows(st) :
     /\ SexOf(r) # NullText /\ YearOf(r) \in vy
     /\ (q.party # ABSENT => r.party_id = q.party)
     /\ (q.state # ABSENT => StateOf(r) = q.state)
     /\ (dn # NullText => DistrictOf(r) = dn)
     /\ (q.gender # NoText => SexOf(r) = q.gender)}

\* GROUP BY e.year, cand.sex with COUNT(*), ORDER BY e.year, cand.sex
GenderCounts(st, R) ==
  LET rows == {[year |-> k[1], gender |-> k[2],
                count |-> CountRows(st, {r \in R : YearOf(r) = k[1] /\ SexOf(r) = k[2]})] :
                 k \in {<<YearOf(r), SexOf(r)>> : r \in R}}
  IN SortBy(rows, [x \in rows |-> <<x.year, Collate(x.gender)>>])

\* one total over the rows of every year
yearTotalsOf_AllYears(rows, y) ==
  SumSeq([i \in 1..Len(rows) |-> rows[i].count], 1)

\* yearTotals[row.year] += row.count over the rows
yearTotalsOf(rows, y) ==
  SumSeq([i \in 1..Len(rows) |-> IF rows[i].year = y THEN rows[i].count ELSE 0], 1)

\* percentage: yearTotals[row.year] > 0 ? row.count * 100.0 / yearTotals[row.year] : 0
GenderPercentage(rows, row) ==
  IF yearTotalsOf(rows, row.year) > 0
  THEN Frac(row.count * 100, yearTotalsOf(rows, row.year))
  ELSE Frac(0, 1)

getGenderTrend(st, q) ==
  LET dn == districtNameOf(q.district)
      rows == GenderCounts(st, GenderTrendWhere(st, validYearsFilter(st), q, dn))
  IN {Reply(200,
            [i \in 1..Len(rows) |->
               [year |-> rows[i].year, gender |-> rows[i].gender,
                count |-> rows[i].count,
                percentage |-> GenderPercentage(rows, rows[i])]],
            districtLookups(q.district) + 1)}

-----------------------------------------------------------------------------
(* getMargins and getClosestContests *)

\* r1 JOIN r2 ON the same constituency and election, r1 the winner, r2 the
\* runner-up, under validYearsFilter; one element per pair of joined copies
ContestPairs(st, vy) ==
  UNION {{<<r1, r2, i>> : i \in 1..(Copies(st, r1) * Copies(st, r2))} :
           <<r1, r2>> \in {x \in Rows(st) \X Rows(st) :
              /\ x[1].position = 1 /\ x[2].position = 2
              /\ x[1].constituency_id = x[2].constituency_id
              /\ x[1].election_id = x[2].election_id
              /\ YearOf(x[1]) \in vy}}

\* the columns selected for a joined pair
MarginRow(r1, r2) ==
  [year |-> YearOf(r1), state_name |-> StateNameOf(r1),
   constituency_name |-> DistrictOf(r1),
   winner_party |-> PartyOf(r1), winner |-> CandNameOf(r1), winner_votes |-> r1.votes,
   runner_up_party |-> PartyOf(r2), runner_up |-> CandNameOf(r2),
   runner_up_votes |-> r2.votes,
   margin |-> IF r1.votes = NULL \/ r2.votes = NULL THEN NULL ELSE r1.votes - r2.votes,
   margin_percentage |-> r1.margin_percentage]

\* the joined rows in any order, without the ORDER BY
ClosestFirst_Unordered(pairs, n) ==
  {[i \in 1..Len(Limit(s, n)) |-> MarginRow(s[i][1], s[i][2])] : s \in Orderings(pairs)}

\* ORDER BY r1.margin_percentage ASC (NULL first) LIMIT n, in every tie order
ClosestFirst(pairs, n) ==
  {[i \in 1..Len(Limit(s, n)) |-> MarginRow(s[i][1], s[i][2])] :
     s \in SortedOrderings(pairs, [x \in pairs |-> <<x[1].margin_percentage>>])}

getMargins(st, q) ==
  LET dn == districtNameOf(q.district)
      limit == IF q.limit = ABSENT THEN DefaultLimit ELSE q.limit
      pairs == {x \in ContestPairs(st, validYearsFilter(st)) :
                  /\ (q.year # ABSENT => YearOf(x[1]) = q.year)
                  /\ (q.state # ABSENT => StateOf(x[1]) = q.state)
                  /\ (dn # NullText => DistrictOf(x[1]) = dn)
                  /\ (q.constituency # ABSENT => x[1].constituency_id = q.constituency)}
  IN {Reply(200, b, districtLookups(q.district) + 1) : b \in ClosestFirst(pairs, limit)}

\* the handler with the caller's limit in place of LIMIT 10
getClosestContests_CallerLimit(st, q) ==
  LET pairs == {x \in ContestPairs(st, validYearsFilter(st)) :
                  /\ x[1].margin_percentage # NULL
                  /\ (q.year # ABSENT => YearOf(x[1]) = q.year)}
  IN {Reply(200, b, 1) :
        b \in ClosestFirst(pairs, IF q.limit = ABSENT THEN DefaultLimit ELSE q.limit)}

getClosestContests(st, q) ==
  LET pairs == {x \in ContestPairs(st, validYearsFilter(st)) :
                  /\ x[1].margin_percentage # NULL
                  /\ (q.year # ABSENT => YearOf(x[1]) = q.year)}
  IN {Reply(200, b, 1) : b \in ClosestFirst(pairs, DefaultLimit)}

\* validatePagination: limit an integer in 1..1000 when sent
validatePagination(q) == q.limit = ABSENT \/ (q.limit >= 1 /\ q.limit <= 1000)

-----------------------------------------------------------------------------
(* getYears, getTurnout, getHighestTurnout, getKPIs, getWomenCandidates *)

\* SELECT e.year ... HAVING COUNT(r.id) >= 1000 ORDER BY e.year DESC, mapped to
\* the years and filtered; each number of the array is held as a row of the body
\* with the one field year
getYears(st) ==
  LET ys == {y \in validYearsFilter(st) : y # NULL /\ y > 0}
      yearList == SortBy(ys, [y \in ys |-> <<0 - y>>])
  IN {Reply(200, [i \in 1..Len(yearList) |-> [year |-> yearList[i]]], 1)}

\* GROUP BY s.name with AVG(r.turnout_percentage) over the rows with a turnout
TurnoutByState(st, vy, q) ==
  LET R == {r \in Rows(st) :
              /\ YearOf(r) = q.year /\ YearOf(r) \in vy /\ r.turnout_percentage # NULL
              /\ (q.state # ABSENT => StateOf(r) = q.state)}
  IN {[state |-> n,
       turnout_pct |-> AvgCol(st, {r \in R : StateNameOf(r) = n},
                              [r \in {x \in R : StateNameOf(x) = n} |->
                                 r.turnout_percentage])] :
        n \in {StateNameOf(r) : r \in R}}

\* ORDER BY the average DESC, in every tie order
HighestFirst(rows) ==
  LET D == ProductOf(rows, [x \in rows |-> x.turnout_pct.den])
  IN SortedOrderings(rows, [x \in rows |-> <<0 - FracKey(x.turnout_pct, D)>>])

getTurnout(st, q) ==
  IF q.year = ABSENT THEN {YearRequired}
  ELSE {Reply(200, s, 1) : s \in HighestFirst(TurnoutByState(st, validYearsFilter(st), q))}

\* ORDER BY avg_turnout DESC LIMIT 1, then res.json(result.rows[0] || null): the
\* body holds the first row, or none for null
getHighestTurnout(st, q) ==
  IF q.year = ABSENT THEN {YearRequired}
  ELSE {Reply(200,
              [i \in 1..Len(Limit(s, 1)) |->
                 [state |-> s[i].state, avg_turnout |-> s[i].turnout_pct]], 1) :
          s \in HighestFirst(TurnoutByState(st, validYearsFilter(st),
                                            [q EXCEPT !.state = ABSENT]))}

\* whereClause of the three KPI queries
KPIWhere(st, vy, q, dn) ==
  {r \in Rows(st) :
     /\ YearOf(r) = q.year /\ YearOf(r) \in vy
     /\ (q.state # ABSENT => StateOf(r) = q.state)
     /\ (dn # NullText => DistrictOf(r) = dn)
     /\ (q.constituency # ABSENT => r.constituency_id = q.constituency)
     /\ (q.gender # NoText => SexOf(r) = q.gender)}

\* SUM(CASE WHEN cand.sex = 'F' THEN 1 ELSE 0 END) * 100.0 / COUNT(*)
WomenPct(st, R) ==
  IF R = {} THEN NullFrac
  ELSE Frac(CountRows(st, {r \in R : SexOf(r) = "F"}) * 100, CountRows(st, R))

\* the handler without its check of the year parameter
getKPIs_NoYearCheck(st, q) ==
  LET dn == districtNameOf(q.district)
      R == KPIWhere(st, validYearsFilter(st), q, dn)
  IN {Reply(200, Object([total_seats |-> Cardinality({r.constituency_id : r \in R})]),
            districtLookups(q.district) + 3)}

\* the handler with one null exclusion shared by the three queries: a row
\* counts only when it has both a turnout and a sex
getKPIs_SharedExclusion(st, q) ==
  IF q.year = ABSENT THEN {YearRequired}
  ELSE LET dn == districtNameOf(q.district)
           R == {r \in KPIWhere(st, validYearsFilter(st), q, dn) :
                   r.turnout_percentage # NULL /\ SexOf(r) # NullText}
       IN {Reply(200,
                 Object([total_seats |->
                    Cardinality({r.constituency_id : r \in {x \in R : x.position = 1}}),
                  overall_turnout |->
                    OrZero(AvgCol(st, R, [r \in R |-> r.turnout_percentage])),
                  women_candidates_pct |-> OrZero(WomenPct(st, R))]),
                 districtLookups(q.district) + 3)}

getKPIs(st, q) ==
  IF q.year = ABSENT THEN {YearRequired}
  ELSE LET dn == districtNameOf(q.district)
           R == KPIWhere(st, validYearsFilter(st), q, dn)
           T == {r \in R : r.turnout_percentage # NULL}
       IN {Reply(200,
                 Object([total_seats |->
                    Cardinality({r.constituency_id : r \in {x \in R : x.position = 1}}),
                  overall_turnout |->
                    OrZero(AvgCol(st, T, [r \in T |-> r.turnout_percentage])),
                  women_candidates_pct |->
                    OrZero(WomenPct(st, {r \in R : SexOf(r) # NullText}))]),
                 districtLookups(q.district) + 3)}

\* GROUP BY e.year, s.name over the rows with a sex, ORDER BY e.year, s.name
getWomenCandidates(st, q) ==
  LET vy == validYearsFilter(st)
      R == {r \in Rows(st) :
              /\ SexOf(r) # NullText /\ YearOf(r) \in vy
              /\ (q.year # ABSENT => YearOf(r) = q.year)
              /\ (q.state # ABSENT => StateOf(r) = q.state)}
      group(y, n) == {r \in R : YearOf(r) = y /\ StateNameOf(r) = n}
      rows == {[year |-> k[1], state |-> k[2],
                women_count |-> CountRows(st, {r \in group(k[1], k[2]) : SexOf(r) = "F"}),
                total_count |-> CountRows(st, group(k[1], k[2])),
                percentage |-> WomenPct(st, group(k[1], k[2]))] :
                 k \in {<<YearOf(r), StateNameOf(r)>> : r \in R}}
  IN {Reply(200, SortBy(rows, [x \in rows |-> <<x.year, Collate(x.state)>>]), 1)}

-----------------------------------------------------------------------------
(* getConstituenciesList *)

\* SELECT c.id, c.name, c.constituency_no FROM constituencies c [WHERE ...]
\* ORDER BY c.name, c.constituency_no; the table of the model holds no
\* constituency_type, so the rows carry the other three columns
getConstituenciesList(q) ==
  LET dn == districtNameOf(q.district)
      C == {c \in DOMAIN Constituencies :
              /\ (q.state # ABSENT => Constituencies[c].state_id = q.state)
              /\ (dn # NullText => Constituencies[c].name = dn)}
  IN {Reply(200, [i \in 1..Len(s) |->
                    [id |-> s[i], name |-> Constituencies[s[i]].name,
                     constituency_no |-> Constituencies[s[i]].constituency_no]],
            districtLookups(q.district) + 1) :
        s \in SortedOrderings(C, [c \in C |->
                <<Collate(Constituencies[c].name), Constituencies[c].constituency_no>>])}

-----------------------------------------------------------------------------
(* getElections *)

\* c.name LIKE '%pattern%', case-insensitive, on the names of Constituencies
Like(name, pattern) ==
  CASE pattern = "a" -> name \in {"Agra", "Bidar"}
    [] pattern = "agra" -> name = "Agra"
    [] OTHER -> FALSE

\* the columns selected for a result row
ElectionRow(r) ==
  [year |-> YearOf(r), state_name |-> StateNameOf(r),
   constituency_name |-> DistrictOf(r), party_name |-> PartyOf(r),
   candidate_name |-> CandNameOf(r), gender |-> SexOf(r), votes |-> r.votes,
   vote_share_percentage |-> r.vote_share_percentage,
   turnout_percentage |-> r.turnout_percentage,
   margin_percentage |-> r.margin_percentage, position |-> r.position]

\* the rows of the sequence s of distinct store rows, every copy in its place
RECURSIVE AllCopies(_, _, _)
AllCopies(st, s, i) ==
  IF i > Len(s) THEN <<>>
  ELSE [j \in 1..Copies(st, s[i]) |-> ElectionRow(s[i])] \o AllCopies(st, s, i + 1)

\* LIMIT n OFFSET k
Page(s, n, k) ==
  SubSeq(s, k + 1, IF Len(s) < k + n THEN Len(s) ELSE k + n)

\* req.query.constituency of getElections is a name pattern, held in
\* constituencyLike; ORDER BY e.year DESC, r.votes DESC puts NULL votes last
getElections(st, q) ==
  LET vy == validYearsFilter(st)
      R == {r \in Rows(st) :
              /\ YearOf(r) \in vy
              /\ (q.year # ABSENT => YearOf(r) = q.year)
              /\ (q.state # ABSENT => StateOf(r) = q.state)
              /\ (q.party # ABSENT => r.party_id = q.party)
              /\ (q.constituencyLike # NoText => Like(DistrictOf(r), q.constituencyLike))}
      limit == IF q.limit = ABSENT THEN DefaultPageSize ELSE q.limit
  IN {Reply(200, Page(AllCopies(st, s, 1), limit, q.offset), 1) :
        s \in SortedOrderings(R, [r \in R |-> <<0 - YearOf(r), 0 - r.votes>>])}

-----------------------------------------------------------------------------
(* calculateCorrelation and getCorrelation *)

\* sum of f[i] for i in 1..n
RECURSIVE SumTo(_, _)
SumTo(f, n) == IF n = 0 THEN 0 ELSE f[n] + SumTo(f, n - 1)

\* the value null of calculateCorrelation; a number is numerator / sqrt(den2)
\* with den2 > 0, held as the pair
NullCorrelation == [num |-> 0, den2 |-> 0]

\* calculateCorrelation answering the number 0 where the denominator is 0
calculateCorrelation_ZeroForFlat(xs, ys) ==
  IF Len(xs) # Len(ys) \/ Len(xs) = 0 THEN NullCorrelation
  ELSE LET n == Len(xs)
           sumX == SumTo(xs, n)
           sumY == SumTo(ys, n)
           sumXY == SumTo([i \in 1..n |-> xs[i] * ys[i]], n)
           sumX2 == SumTo([i \in 1..n |-> xs[i] * xs[i]], n)
           sumY2 == SumTo([i \in 1..n |-> ys[i] * ys[i]], n)
           numerator == n * sumXY - sumX * sumY
           den2 == (n * sumX2 - sumX * sumX) * (n * sumY2 - sumY * sumY)
       IN IF den2 = 0 THEN [num |-> 0, den2 |-> 1]
          ELSE [num |-> numerator, den2 |-> den2]

\* calculateCorrelation with the sums of squares not scaled by n
calculateCorrelation_Unscaled(xs, ys) ==
  IF Len(xs) # Len(ys) \/ Len(xs) = 0 THEN NullCorrelation
  ELSE LET n == Len(xs)
           sumX == SumTo(xs, n)
           sumY == SumTo(ys, n)
           sumXY == SumTo([i \in 1..n |-> xs[i] * ys[i]], n)
           sumX2 == SumTo([i \in 1..n |-> xs[i] * xs[i]], n)
           sumY2 == SumTo([i \in 1..n |-> ys[i] * ys[i]], n)
           numerator == n * sumXY - sumX * sumY
           den2 == (sumX2 - sumX * sumX) * (sumY2 - sumY * sumY)
       IN IF den2 = 0 THEN NullCorrelation
          ELSE [num |-> numerator, den2 |-> den2]

\* calculateCorrelation: null, or numerator / Math.sqrt(den2)
calculateCorrelation(xs, ys) ==
  IF Len(xs) # Len(ys) \/ Len(xs) = 0 THEN NullCorrelation
  ELSE LET n == Len(xs)
           sumX == SumTo(xs, n)
           sumY == SumTo(ys, n)
           sumXY == SumTo([i \in 1..n |-> xs[i] * ys[i]], n)
           sumX2 == SumTo([i \in 1..n |-> xs[i] * xs[i]], n)
           sumY2 == SumTo([i \in 1..n |-> ys[i] * ys[i]], n)
           numerator == n * sumXY - sumX * sumY
           den2 == (n * sumX2 - sumX * sumX) * (n * sumY2 - sumY * sumY)
       IN IF den2 = 0 THEN NullCorrelation
          ELSE [num |-> numerator, den2 |-> den2]

\* the rows of R as the array a query returns: every copy, in a fixed order
RECURSIVE RowArray(_, _)
RowArray(st, R) ==
  IF R = {} THEN <<>>
  ELSE LET r == CHOOSE x \in R : TRUE
       IN [i \in 1..Copies(st, r) |-> r] \o RowArray(st, R \ {r})

\* the rows with a turnout and a margin, of any year: the query has no
\* validYearsFilter
CorrelationWhere(st, q) ==
  {r \in Rows(st) :
     /\ r.turnout_percentage # NULL /\ r.margin_percentage # NULL
     /\ (q.state # ABSENT => StateOf(r) = q.state)}

\* one state row with the correlation of its second query (WHERE s.name = $1)
CorrelationOfState(st, R, n) ==
  LET G == {r \in R : StateNameOf(r) = n}
      C == {r \in Rows(st) : /\ StateNameOf(r) = n
                             /\ r.turnout_percentage # NULL
                             /\ r.margin_percentage # NULL}
      arr == RowArray(st, C)
  IN [state |-> n,
      avg_turnout |-> AvgCol(st, G, [r \in G |-> r.turnout_percentage]),
      avg_margin |-> AvgCol(st, G, [r \in G |-> r.margin_percentage]),
      data_points |-> CountRows(st, G),
      correlation |-> calculateCorrelation([i \in 1..Len(arr) |-> arr[i].turnout_percentage],
                                           [i \in 1..Len(arr) |-> arr[i].margin_percentage])]

getCorrelation(st, q) ==
  LET R == CorrelationWhere(st, q)
      names == {StateNameOf(r) : r \in R}
      rows == {CorrelationOfState(st, R, n) : n \in names}
  IN {Reply(200, SortBy(rows, [x \in rows |-> <<Collate(x.state)>>]),
            1 + Cardinality(names))}

-----------------------------------------------------------------------------
(* getNationalVsRegionalVoteShare *)

\* text LIKE '%word%', which SQLite matches without regard to ASCII case
ContainsNoCase(text, word) ==
  CASE word = "national" -> text \in {"National Party", "Regional (ex-National)"}
    [] word = "regional" -> text \in {"regional", "Regional (ex-National)"}
    [] OTHER -> FALSE

\* text LIKE '%word%' matched with regard to case, word capitalised
ContainsCase(text, word) ==
  CASE word = "national" -> text \in {"National Party", "Regional (ex-National)"}
    [] word = "regional" -> text \in {"Regional (ex-National)"}
    [] OTHER -> FALSE

\* the CASE expression with every LIKE matched with regard to case
partyTypeCase_CaseSensitive(t) ==
  IF t # NullText /\ ContainsCase(t, "national") THEN "National"
  ELSE IF t # NullText /\ ContainsCase(t, "regional") THEN "Regional"
  ELSE "Other"

\* CASE WHEN ... LIKE '%National%' ... WHEN ... LIKE '%Regional%' ... ELSE 'Other'
partyTypeCase(t) ==
  IF t # NullText /\ ContainsNoCase(t, "national") THEN "National"
  ELSE IF t # NullText /\ ContainsNoCase(t, "regional") THEN "Regional"
  ELSE "Other"

\* both queries read the rows WHERE r.votes IS NOT NULL AND r.votes > 0 of the
\* valid years; the second groups them by year and party type
getNationalVsRegionalVoteShare(st, pt) ==
  LET vy == validYearsFilter(st)
      V == {r \in Rows(st) : r.votes # NULL /\ r.votes > 0 /\ YearOf(r) \in vy}
      ofYear(y) == {r \in V : YearOf(r) = y}
      yearTotals(y) == IF ofYear(y) = {} THEN 0
                       ELSE SumCol(st, ofYear(y), [r \in ofYear(y) |-> r.votes])
      group(y, b) == {r \in V : YearOf(r) = y /\ partyTypeCase(pt[r.party_id]) = b}
      votesOf(y, b) == SumCol(st, group(y, b), [r \in group(y, b) |-> r.votes])
      rows == {[year |-> k[1], party_type |-> k[2],
                total_votes |-> votesOf(k[1], k[2]),
                vote_share_pct |-> IF yearTotals(k[1]) > 0
                                   THEN Frac(votesOf(k[1], k[2]) * 100, yearTotals(k[1]))
                                   ELSE Frac(0, 1)] :
                 k \in {<<YearOf(r), partyTypeCase(pt[r.party_id])>> : r \in V}}
  IN {Reply(200, SortBy(rows, [x \in rows |-> <<x.year, Collate(x.party_type)>>]), 2)}

-----------------------------------------------------------------------------
(* getEducationCorrelation *)

\* TRIM(text) and text.trim() on the values of Educations
Trim(t) ==
  CASE t = "  " -> "" [] t = " Graduate " -> "Graduate" [] OTHER -> t

\* the query without its test of the position
EducationWhere_AnyPosition(st, edu) ==
  {r \in Rows(st) :
     /\ edu[r.candidate_id] # NullText /\ edu[r.candidate_id] # ""
     /\ Trim(edu[r.candidate_id]) # ""
     /\ YearOf(r) \in validYearsFilter(st)}

\* the rows of the query: an education that is not NULL, not empty and not
\* blank, a position, a valid year
EducationWhere(st, edu) ==
  {r \in Rows(st) :
     /\ edu[r.candidate_id] # NullText /\ edu[r.candidate_id] # ""
     /\ Trim(edu[r.candidate_id]) # ""
     /\ r.position # NULL
     /\ YearOf(r) \in validYearsFilter(st)}

\* educationStats keyed by (row.education || 'Unknown').trim(), empty keys
\* skipped, then win_rate = winners * 100.0 / total_candidates and
\* sort((a, b) => b.win_rate - a.win_rate), in every order of the ties
getEducationCorrelation(st, edu) ==
  LET R == EducationWhere(st, edu)
      keyOf(r) == Trim(IF edu[r.candidate_id] = NullText THEN "Unknown"
                       ELSE edu[r.candidate_id])
      group(k) == {r \in R : keyOf(r) = k}
      stats == {[education |-> k,
                 total_candidates |-> CountRows(st, group(k)),
                 winners |-> CountRows(st, {r \in group(k) : r.position = 1}),
                 win_rate |-> Frac(CountRows(st, {r \in group(k) : r.position = 1}) * 100,
                                   CountRows(st, group(k)))] :
                  k \in {keyOf(r) : r \in R} \ {""}}
      D == ProductOf(stats, [x \in stats |-> x.win_rate.den])
  IN {Reply(200, s, 1) :
        s \in SortedOrderings(stats, [x \in stats |-> <<0 - FracKey(x.win_rate, D)>>])}

-----------------------------------------------------------------------------
(* Stores *)

\* the padding rows: pd[y] copies of PadRow(y)
PadBag(pd) ==
  [r \in {PadRow(y) : y \in {z \in Years : pd[z] > 0}} |-> pd[YearOf(r)]]

\* a store holding one copy of every row of R and the padding
StoreOf(R, pd) == BagSum([r \in R |-> 1], PadBag(pd))

Paddings == [Years -> {0, BulkRows}]

\* no row in a slot
NoRow == <<0, 0>>

\* contests (election, constituency) whose winner row the seat stores vary
SeatSlots == {<<1, 1>>, <<1, 2>>, <<2, 1>>, <<3, 3>>}
SeatChoices == [SeatSlots -> {NoRow} \cup ({1, 2} \X Parties)]
SeatStore(w, pd) ==
  StoreOf({ResultRow(s[1], s[2], w[s][1], w[s][2], 1, NULL, NULL, NULL, NULL) :
             s \in {t \in SeatSlots : w[t] # NoRow}}, pd)

\* rows (election, constituency, candidate) whose party and votes the vote
\* stores vary; the position is the candidate's rank in the slot list
VoteSlots == {<<1, 1, 1>>, <<1, 1, 2>>, <<1, 2, 2>>}
\* the import stores an empty or zero measure as NULL (record.votes || null)
VoteValues == {NULL} \cup (1..MaxVotes)
VoteChoices == [VoteSlots -> {NoRow} \cup (Parties \X VoteValues)]
VoteStore(w, pd) ==
  StoreOf({ResultRow(s[1], s[2], s[3], w[s][1], s[3], w[s][2], NULL, NULL, NULL) :
             s \in {t \in VoteSlots : w[t] # NoRow}}, pd)

\* rows (election, constituency) whose candidate and party the gender stores vary
GenderSlots == {<<1, 1>>, <<1, 2>>, <<3, 1>>, <<3, 3>>}
GenderChoices == [GenderSlots -> {NoRow} \cup ((DOMAIN Candidates) \X Parties)]
GenderStore(w, pd) ==
  StoreOf({ResultRow(s[1], s[2], w[s][1], w[s][2], 2, NULL, NULL, NULL, NULL) :
             s \in {t \in GenderSlots : w[t] # NoRow}}, pd)

\* contests (election, constituency): the winner row is absent or carries a
\* margin_percentage, the runner-up row is absent or present
MarginContests == {<<1, 1>>, <<1, 2>>, <<3, 3>>}
MarginValues == {NULL} \cup (1..MaxMargin)
MarginChoices == [MarginContests -> ({NoRow} \cup ({1} \X MarginValues)) \X BOOLEAN]
MarginStore(w, pd) ==
  StoreOf({ResultRow(s[1], s[2], 1, 1, 1, MaxVotes, NULL, w[s][1][2], NULL) :
             s \in {t \in MarginContests : w[t][1] # NoRow}}
          \cup {ResultRow(s[1], s[2], 2, 2, 2, 1, NULL, NULL, NULL) :
             s \in {t \in MarginContests : w[t][2]}}, pd)

\* contests (election, constituency) of the pairing runs: the candidates that
\* hold a position=1 row (the results table has no key on election,
\* constituency and position, and the import inserts every record it reads),
\* and the votes of the position=2 row, 0 when the contest has none
PairContests == {<<1, 1>>, <<3, 3>>}
PairChoices == [PairContests -> {{}, {1}, {1, 3}} \X ({0} \cup VoteValues)]
PairStore(w, pd) ==
  StoreOf(UNION {{ResultRow(s[1], s[2], k, 1, 1, MaxVotes, NULL, 1, NULL) :
                    k \in w[s][1]} : s \in PairContests}
          \cup {ResultRow(s[1], s[2], 2, 2, 2, w[s][2], NULL, NULL, NULL) :
             s \in {t \in PairContests : w[t][2] # 0}}, pd)

\* the contests of the limit runs in the order the import met them: the
\* constituencies of election 1, then those of election 2, and so on
ContestAt(k) == <<((k - 1) \div 3) + 1, ((k - 1) % 3) + 1>>
\* margin_percentage of the winner of the k-th contest: the values differ from
\* contest to contest and do not follow the order of the contests
MarginAt(k) == (k * 5) % 17
\* the first n contests are held, each with a winner and a runner-up; the
\* winner of contest nullAt has no margin_percentage (0: every winner has
\* one), and with tie the second contest has the margin of the first
LimitChoices == [n : 0..MaxContests, nullAt : 0..MaxContests, tie : BOOLEAN]
LimitStore(w, pd) ==
  StoreOf({ResultRow(ContestAt(k)[1], ContestAt(k)[2], 1, 1, 1, MaxVotes, NULL,
                     IF k = w.nullAt THEN NULL
                     ELSE IF k = 2 /\ w.tie THEN MarginAt(1) ELSE MarginAt(k),
                     NULL) : k \in 1..w.n}
          \cup {ResultRow(ContestAt(k)[1], ContestAt(k)[2], 2, 2, 2, 1, NULL, NULL, NULL) :
                  k \in 1..w.n}, pd)

\* rows (election, constituency, position) of 2014 whose candidate and turnout
\* the KPI stores vary: two polls of one constituency won, and a runner-up
KPISlots == {<<1, 1, 1>>, <<2, 1, 1>>, <<1, 2, 2>>}
KPIChoices == [KPISlots -> {NoRow} \cup ((DOMAIN Candidates) \X {NULL, MaxTurnout})]
KPIStore(w, pd) ==
  StoreOf({ResultRow(s[1], s[2], w[s][1], 1, s[3], NULL, w[s][2], NULL, NULL) :
             s \in {t \in KPISlots : w[t] # NoRow}}, pd)

\* contests (election, constituency) whose one row the education stores
\* vary in candidate and position; the import stores an empty position as NULL
EducationSlots == {<<1, 1>>, <<3, 3>>}
EducationChoices ==
  [EducationSlots -> {NoRow} \cup ((DOMAIN Candidates) \X {NULL, 1, 2})]
EducationStore(w, pd) ==
  StoreOf({ResultRow(s[1], s[2], w[s][1], 1, w[s][2], NULL, NULL, NULL, NULL) :
             s \in {t \in EducationSlots : w[t] # NoRow}}, pd)
\* candidates.myneta_education as the import may have left it
EducationChoicesOfCandidates ==
  {e \in [DOMAIN Candidates -> Educations] :
     e[1] \in {"Graduate", " Graduate "} /\ e[3] \in {NullText, "  ", "10th Pass"}}

\* rows (election, constituency, candidate, position) whose party and measures
\* the stores of the whole server vary; votes, turnout and margin share a
\* value: NULL, the lowest or the highest of the range
ResultSlots == {<<1, 1, 1, 1>>, <<1, 1, 2, 2>>, <<3, 3, 2, 1>>}
MeasureValues == {NULL, 1, MaxTurnout}
ResultChoices == [ResultSlots -> {NoRow} \cup (Parties \X MeasureValues)]
ResultStore(w, pd) ==
  StoreOf({ResultRow(s[1], s[2], s[3], w[s][1], s[4], w[s][2], w[s][2], w[s][2], NULL) :
             s \in {t \in ResultSlots : w[t] # NoRow}}, pd)

-----------------------------------------------------------------------------
(* Routes *)

\* the server is waiting for a request
Idle == op = "none"

\* a handler answers the request it was given
Answer(name, q, out) ==
  LET o == Outcome(name, q, out, isConnected, available)
  IN /\ op' = name
     /\ req' = q
     /\ resp' = o.reply.body
     /\ status' = o.reply.status
     /\ queries' = o.reply.queries
     /\ isConnected' = o.connected
     /\ connects' = o.connects
     /\ sent' = 1
     /\ store' = IF o.reply.queries > 0 THEN StoreAfter(name, store) ELSE store
     /\ UNCHANGED <<partyType, education, restVars, calcVars, available, pending, promises>>

SeatShareQueries ==
  {[NoQuery EXCEPT !.year = y, !.state = s, !.party = p, !.gender = g,
                   !.district = d, !.constituency = c] :
     y \in {ABSENT, 2014, 2019}, s \in {ABSENT, 1}, p \in {ABSENT, 1},
     g \in {NoText, "F", "M"}, d \in {ABSENT, 1, 3, 9}, c \in {ABSENT, 1}}

\* router.get('/seat-share', validateYear, asyncHandler(getSeatShare))
GetSeatShare ==
  /\ Idle
  /\ \E q \in SeatShareQueries :
    \E out \in IF validateYear(q) THEN getSeatShare(store, q) ELSE {ValidationFailed} :
      Answer("getSeatShare", q, out)

SeatChangesQueries ==
  {[NoQuery EXCEPT !.year1 = a, !.year2 = b] :
     a \in {ABSENT, 2014, 2019}, b \in {ABSENT, 2014, 2019}}

\* router.get('/analytics/seat-changes', validateSeatChanges, asyncHandler(getSeatChanges))
GetSeatChanges ==
  /\ Idle
  /\ \E q \in SeatChangesQueries :
    \E out \in IF validateSeatChanges(q) THEN getSeatChanges(store, q)
               ELSE {ValidationFailed} :
      Answer("getSeatChanges", q, out)

VoteShareQueries ==
  {[NoQuery EXCEPT !.year = y, !.aggregate = a, !.state = s, !.party = p, !.gender = g,
                   !.district = d, !.constituency = c] :
     y \in {ABSENT, 2014, 2019}, a \in {NoText, "true", "1"}, s \in {ABSENT, 1},
     p \in {ABSENT, 1}, g \in {NoText, "F"}, d \in {ABSENT, 1, 9}, c \in {ABSENT, 1, 3}}

\* router.get('/vote-share', validateYear, asyncHandler(getVoteShare))
GetVoteShare ==
  /\ Idle
  /\ \E q \in VoteShareQueries :
    \E out \in IF validateYear(q) THEN getVoteShare(store, q) ELSE {ValidationFailed} :
      Answer("getVoteShare", q, out)

GenderTrendQueries ==
  {[NoQuery EXCEPT !.party = p, !.state = s, !.gender = g, !.district = d] :
     p \in {ABSENT, 1}, s \in {ABSENT, 1}, g \in {NoText, "F", "M"}, d \in {ABSENT, 1, 9}}

\* router.get('/gender-trend', asyncHandler(getGenderTrend))
GetGenderTrend ==
  /\ Idle
  /\ \E q \in GenderTrendQueries :
    \E out \in getGenderTrend(store, q) : Answer("getGenderTrend", q, out)

MarginsQueries ==
  {[NoQuery EXCEPT !.year = y, !.state = s, !.district = d, !.constituency = c,
                   !.limit = l] :
     y \in {ABSENT, 2014, 2019}, s \in {ABSENT, 2}, d \in {ABSENT, 1, 9},
     c \in {ABSENT, 2}, l \in {ABSENT, 1, 2, 1001}}

\* router.get('/margins', validateYear, validatePagination, asyncHandler(getMargins))
GetMargins ==
  /\ Idle
  /\ \E q \in MarginsQueries :
    \E out \in IF validateYear(q) /\ validatePagination(q) THEN getMargins(store, q)
               ELSE {ValidationFailed} :
      Answer("getMargins", q, out)

ClosestContestsQueries ==
  {[NoQuery EXCEPT !.year = y, !.limit = l] :
     y \in {ABSENT, 2014, 2019, 1900}, l \in {ABSENT, 1, 1001}}

\* router.get('/analytics/closest-contests', validateYear, asyncHandler(getClosestContests))
GetClosestContests ==
  /\ Idle
  /\ \E q \in ClosestContestsQueries :
    \E out \in IF validateYear(q) THEN getClosestContests(store, q)
               ELSE {ValidationFailed} :
      Answer("getClosestContests", q, out)

\* router.get('/years', asyncHandler(getYears))
GetYears ==
  /\ Idle
  /\ \E out \in getYears(store) : Answer("getYears", NoQuery, out)

TurnoutQueries ==
  {[NoQuery EXCEPT !.year = y, !.state = s] :
     y \in {ABSENT, 2014, 2019, 1900}, s \in {ABSENT, 1}}

\* router.get('/turnout', validateYear, asyncHandler(getTurnout))
GetTurnout ==
  /\ Idle
  /\ \E q \in TurnoutQueries :
    \E out \in IF validateYear(q) THEN getTurnout(store, q) ELSE {ValidationFailed} :
      Answer("getTurnout", q, out)

KPIQueries ==
  {[NoQuery EXCEPT !.year = y, !.state = s, !.gender = g, !.district = d,
                   !.constituency = c] :
     y \in {ABSENT, 2014, 2019}, s \in {ABSENT, 1}, g \in {NoText, "F"},
     d \in {ABSENT, 1, 9}, c \in {ABSENT, 1}}

\* router.get('/kpis', validateYear, asyncHandler(getKPIs))
GetKPIs ==
  /\ Idle
  /\ \E q \in KPIQueries :
    \E out \in IF validateYear(q) THEN getKPIs(store, q) ELSE {ValidationFailed} :
      Answer("getKPIs", q, out)

\* router.get('/analytics/highest-turnout', validateYear, asyncHandler(getHighestTurnout))
GetHighestTurnout ==
  /\ Idle
  /\ \E q \in {t \in TurnoutQueries : t.state = ABSENT} :
    \E out \in IF validateYear(q) THEN getHighestTurnout(store, q)
               ELSE {ValidationFailed} :
      Answer("getHighestTurnout", q, out)

WomenCandidatesQueries ==
  {[NoQuery EXCEPT !.year = y, !.state = s] :
     y \in {ABSENT, 2014, 2019, 1900}, s \in {ABSENT, 1}}

ConstituenciesListQueries ==
  {[NoQuery EXCEPT !.state = s, !.district = d] :
     s \in {ABSENT, 1, 2}, d \in {ABSENT, 1, 3, 9}}

\* router.get('/constituencies-list', asyncHandler(getConstituenciesList))
GetConstituenciesList ==
  /\ Idle
  /\ \E q \in ConstituenciesListQueries :
    \E out \in getConstituenciesList(q) : Answer("getConstituenciesList", q, out)

ElectionsQueries ==
  {[NoQuery EXCEPT !.year = y, !.party = p, !.constituencyLike = c, !.limit = l,
                   !.offset = o] :
     y \in {ABSENT, 2019, 2101}, p \in {ABSENT, 1}, c \in {NoText, "agra"},
     l \in {ABSENT, 2, 1001}, o \in {ABSENT, 1}}

\* router.get('/elections', validatePagination, asyncHandler(getElections))
GetElections ==
  /\ Idle
  /\ \E q \in ElectionsQueries :
    \E out \in IF validatePagination(q) THEN getElections(store, q)
               ELSE {ValidationFailed} :
      Answer("getElections", q, out)

\* router.get('/analytics/women-candidates', asyncHandler(getWomenCandidates))
GetWomenCandidates ==
  /\ Idle
  /\ \E q \in WomenCandidatesQueries :
    \E out \in getWomenCandidates(store, q) : Answer("getWomenCandidates", q, out)

CorrelationQueries == {[NoQuery EXCEPT !.state = s] : s \in {ABSENT, 1, 2}}

\* router.get('/analytics/correlation', asyncHandler(getCorrelation))
GetCorrelation ==
  /\ Idle
  /\ \E q \in CorrelationQueries :
    \E out \in getCorrelation(store, q) : Answer("getCorrelation", q, out)

\* router.get('/analytics/national-vs-regional',
\*            asyncHandler(getNationalVsRegionalVoteShare))
GetNationalVsRegionalVoteShare ==
  /\ Idle
  /\ \E out \in getNationalVsRegionalVoteShare(store, partyType) :
       Answer("getNationalVsRegionalVoteShare", NoQuery, out)

\* router.get('/analytics/education-correlation', asyncHandler(getEducationCorrelation))
GetEducationCorrelation ==
  /\ Idle
  /\ \E out \in getEducationCorrelation(store, education) :
       Answer("getEducationCorrelation", NoQuery, out)

\* the response has been sent; the server waits for the next request
NextRequest ==
  /\ op # "none"
  /\ op' = "none"
  /\ req' = NoQuery
  /\ resp' = <<>>
  /\ status' = 0
  /\ queries' = 0
  /\ connects' = 0
  /\ pending' = <<>>
  /\ promises' = <<>>
  /\ sent' = 0
  /\ UNCHANGED <<store, partyType, education, restVars, calcVars, isConnected, available>>

-----------------------------------------------------------------------------
(* The dashboard in the browser: the URL, the Header and one component *)

\* the search parameters followed: year, state, district and constituency
NoParams ==
  [year |-> ABSENT, state |-> ABSENT, district |-> ABSENT, constituency |-> ABSENT]

\* no render has had its effects run
NotRendered ==
  [year |-> NULL, state |-> NULL, district |-> NULL, constituency |-> NULL]

\* the years a URL can carry: none, one outside 1991..2019, and a stored one
UrlYears == {ABSENT, 1990, 2019}

\* the URLs a visitor can open the dashboard with
MountUrls ==
  [year : UrlYears, state : {ABSENT, 1}, district : {ABSENT, 1},
   constituency : {ABSENT, 1}]

\* the URLs without district and constituency
PlainUrls == {u \in MountUrls : u.district = ABSENT /\ u.constituency = ABSENT}

\* what GET /years answers: the valid years of the store, latest first
YearsResponses == {<<>>, <<2019>>}

\* .filter(year => ... year >= 1991 && year <= 2019).sort((a, b) => b - a); the
\* server sends the years latest first, which the sort keeps
YearsList(all) == SelectSeq(all, LAMBDA y : y # NULL /\ y >= 1991 /\ y <= 2019)

\* the components App mounts on the dashboard
Components ==
  {"KPICards", "SeatShareChart", "VoteShareChart", "GenderTrendChart",
   "MarginsTable", "Analytics"}

\* const itemsPerPage = 10
itemsPerPage == 10

\* the numbers of rows getMargins(year, state, 50, ...) answers with
RowCounts == {0, 5, 25}

\* the lengths of the data a response carries; the length matters to the
\* paging of MarginsTable only
Lengths(c) == IF c = "MarginsTable" THEN RowCounts ELSE {1}

\* useState([]): the data before any response
NoData == [of |-> NotRendered, length |-> 0]

\* the dependency list of the effect of component c: the search parameters
\* whose change makes the effect run again, which are the ones it requests with
Deps(c, u) ==
  CASE c = "Header" -> NoParams
    [] c \in {"KPICards", "SeatShareChart", "MarginsTable"} -> u
    [] c = "VoteShareChart" -> [u EXCEPT !.district = u.state, !.constituency = u.state]
    [] c = "GenderTrendChart" -> [u EXCEPT !.year = u.state]
    [] c = "Analytics" ->
         [u EXCEPT !.state = u.year, !.district = u.year, !.constituency = u.year]

\* !year || !yearNum || isNaN(yearNum) || yearNum < 1991 || yearNum > 2019
ValidUrlYear(y) == y # ABSENT /\ y >= 1991 /\ y <= 2019

\* the effect of component c goes on to its request
Fetches(c, u) ==
  CASE c = "Header" -> FALSE
    [] c = "VoteShareChart" -> u.year # ABSENT
    [] c = "GenderTrendChart" -> TRUE
    [] OTHER -> ValidUrlYear(u.year)

\* the effect of component c under the search parameters u: the early return
\* (MarginsTable alone clears data and loading in it), or setLoading(true) and
\* the request
Effect(c, u, ld, dt, fl) ==
  IF Fetches(c, u)
  THEN [loading |-> TRUE, data |-> dt,
        flight |-> Append(fl, [params |-> Deps(c, u),
                               stage |-> IF c = "Analytics" THEN "years" ELSE "data"])]
  ELSE IF c = "MarginsTable"
       THEN [loading |-> FALSE, data |-> [of |-> Deps(c, u), length |-> 0],
             flight |-> fl]
       ELSE [loading |-> ld, data |-> dt, flight |-> fl]

\* the effect on the state parameter, were it to leave the parameters alone
DistrictsEffect_NoClear(u) == u

\* the effect of the Header on the state parameter: without a state, district
\* and constituency are deleted
DistrictsEffect(u) ==
  IF u.state = ABSENT /\ (u.district # ABSENT \/ u.constituency # ABSENT)
  THEN [u EXCEPT !.district = ABSENT, !.constituency = ABSENT]
  ELSE u

\* the effect of the Header on state and district: without a state, the
\* constituency is deleted
ConstituenciesEffect(u) ==
  IF u.state = ABSENT /\ u.constituency # ABSENT
  THEN [u EXCEPT !.constituency = ABSENT]
  ELSE u

\* the effects of a render have run and no navigation is pending
Settled == rendered = url

\* const totalPages = Math.ceil(data.length / itemsPerPage)
TotalPages == (data.length + itemsPerPage - 1) \div itemsPerPage

\* flight without its i-th request
Without(fl, i) == SubSeq(fl, 1, i - 1) \o SubSeq(fl, i + 1, Len(fl))

\* the effects of the render under the search parameters url run: both effects
\* of the Header read the same searchParams, so the navigation of the second
\* replaces the one of the first; the effect of the component runs when its
\* dependencies have changed
RunEffects ==
  /\ ~Settled
  /\ rendered' = url
  /\ url' = IF ConstituenciesEffect(url) # url THEN ConstituenciesEffect(url)
            ELSE DistrictsEffect(url)
  /\ LET e == IF Deps(component, url) # Deps(component, rendered)
              THEN Effect(component, url, loading, data, flight)
              ELSE [loading |-> loading, data |-> data, flight |-> flight]
     IN  /\ loading' = e.loading
         /\ data' = e.data
         /\ flight' = e.flight
  /\ UNCHANGED <<mountParams, years, options, component, page, serverVars>>

\* Promise.all([getYears(), getStates(), getParties()]).then of the Header:
\* searchParams is the one of the mount, which nothing holds afterwards
HeaderLoaded ==
  \E all \in YearsResponses :
    /\ Settled
    /\ options = "pending"
    /\ Len(flight) < MaxFlight
    /\ years' = YearsList(all)
    /\ options' = "loaded"
    /\ url' = IF mountParams.year = ABSENT /\ Len(YearsList(all)) > 0
              THEN [mountParams EXCEPT !.year = YearsList(all)[1]]
              ELSE url
    /\ mountParams' = NoParams
    /\ UNCHANGED <<rendered, component, loading, data, flight, page, serverVars>>

\* the .catch of the same promise
HeaderFailed ==
  /\ Settled
  /\ options = "pending"
  /\ options' = "failed"
  /\ mountParams' = NoParams
  /\ UNCHANGED <<url, rendered, years, component, loading, data, flight, page,
                 serverVars>>

\* the values the select of a filter offers
Offered(key) ==
  CASE key = "year" -> {ABSENT} \cup {years[i] : i \in DOMAIN years}
    [] key = "state" -> IF options = "loaded" THEN {ABSENT, 1} ELSE {ABSENT}
    [] OTHER -> IF url.state # ABSENT THEN {ABSENT, 1} ELSE {}

\* handleFilterChange(key, value) for a value the select of key offers
handleFilterChange(key) ==
  \E value \in Offered(key) :
    /\ Settled
    /\ value # url[key]
    /\ Len(flight) < MaxFlight
    /\ url' = IF key = "state" /\ value = ABSENT
              THEN [url EXCEPT !.state = ABSENT, !.district = ABSENT,
                               !.constituency = ABSENT]
              ELSE [url EXCEPT ![key] = value]
    /\ UNCHANGED <<rendered, mountParams, years, options, component, loading,
                   data, flight, page, serverVars>>

\* the visitor picks an option of one of the selects
ChangeYear == handleFilterChange("year")
ChangeState == handleFilterChange("state")
ChangeDistrict == handleFilterChange("district")
ChangeConstituency == handleFilterChange("constituency")

\* handleClearAll()
HandleClearAll ==
  /\ Settled
  /\ Len(flight) < MaxFlight
  /\ url' = IF Len(years) > 0 THEN [NoParams EXCEPT !.year = years[1]] ELSE NoParams
  /\ UNCHANGED <<rendered, mountParams, years, options, component, loading, data,
                 flight, page, serverVars>>

\* the .then of the request of the component: setData(...), setLoading(false)
ResponseThen ==
  \E i \in DOMAIN flight :
    \E n \in Lengths(component) :
      /\ Settled
      /\ flight[i].stage = "data"
      /\ data' = [of |-> flight[i].params, length |-> n]
      /\ loading' = FALSE
      /\ flight' = Without(flight, i)
      /\ UNCHANGED <<url, rendered, mountParams, years, options, component, page,
                     serverVars>>

\* the .catch of the request of the component: setLoading(false); the calls
\* of the Promise.all of Analytics catch their own failures
ResponseCatch ==
  \E i \in DOMAIN flight :
    /\ Settled
    /\ flight[i].stage = "years" \/ component # "Analytics"
    /\ loading' = FALSE
    /\ flight' = Without(flight, i)
    /\ UNCHANGED <<url, rendered, mountParams, years, options, component, data,
                   page, serverVars>>

\* getYears().then of Analytics: a year that is not in the list ends the
\* loading, any other starts the Promise.all of the six requests
AnalyticsYears ==
  \E i \in DOMAIN flight :
    \E all \in YearsResponses :
      /\ Settled
      /\ flight[i].stage = "years"
      /\ IF \E k \in DOMAIN YearsList(all) : YearsList(all)[k] = flight[i].params.year
         THEN /\ flight' = Append(Without(flight, i), [flight[i] EXCEPT !.stage = "data"])
              /\ loading' = loading
         ELSE /\ flight' = Without(flight, i)
              /\ loading' = FALSE
      /\ UNCHANGED <<url, rendered, mountParams, years, options, component, data,
                     page, serverVars>>

\* Previous: setPage(p => Math.max(1, p - 1)); the buttons are rendered when
\* totalPages > 1 and the table is not loading
Previous ==
  /\ component = "MarginsTable"
  /\ Settled
  /\ ~loading
  /\ TotalPages > 1
  /\ page # 1
  /\ page' = IF page - 1 > 1 THEN page - 1 ELSE 1
  /\ UNCHANGED <<url, rendered, mountParams, years, options, component, loading,
                 data, flight, serverVars>>

\* Next: setPage(p => Math.min(totalPages, p + 1))
NextPage ==
  /\ component = "MarginsTable"
  /\ Settled
  /\ ~loading
  /\ TotalPages > 1
  /\ page # TotalPages
  /\ page' = IF page + 1 < TotalPages THEN page + 1 ELSE TotalPages
  /\ UNCHANGED <<url, rendered, mountParams, years, options, component, loading,
                 data, flight, serverVars>>

\* the dashboard has not been opened
InitClient ==
  /\ url = NoParams
  /\ rendered = NotRendered
  /\ mountParams = NoParams
  /\ years = <<>>
  /\ options = "pending"
  /\ component = "Header"
  /\ loading = TRUE
  /\ data = NoData
  /\ flight = <<>>
  /\ page = 1

\* connect() of the module load succeeded and the database stays readable
Connected ==
  /\ isConnected = TRUE
  /\ available = TRUE
  /\ connects = 0

\* no Promise.all is in flight and no response has been written
NoFanOut ==
  /\ pending = <<>>
  /\ promises = <<>>
  /\ sent = 0

\* no call of calculateCorrelation is on record
NoCall ==
  /\ xValues = <<>>
  /\ yValues = <<>>
  /\ correlation = NullCorrelation

\* the parts of the system the runs of the API do not follow
InitRest ==
  /\ db = "open"
  /\ ran = NoOperation
  /\ InitClient
  /\ statement = NoStatement
  /\ bindings = Unbound

InitServer ==
  /\ op = "none"
  /\ req = NoQuery
  /\ resp = <<>>
  /\ status = 0
  /\ queries = 0
  /\ NoCall
  /\ NoFanOut
  /\ InitRest

InitSeat ==
  /\ \E w \in SeatChoices, pd \in Paddings : store = SeatStore(w, pd)
  /\ partyType = ImportedPartyType
  /\ education = ImportedEducation
  /\ Connected
  /\ InitServer

NextSeat == GetSeatShare \/ GetSeatChanges \/ NextRequest

SpecSeat == InitSeat /\ [][NextSeat]_vars

InitVote ==
  /\ \E w \in VoteChoices, pd \in Paddings : store = VoteStore(w, pd)
  /\ partyType = ImportedPartyType
  /\ education = ImportedEducation
  /\ Connected
  /\ InitServer

NextVote == GetVoteShare \/ NextRequest

SpecVote == InitVote /\ [][NextVote]_vars

InitGender ==
  /\ \E w \in GenderChoices, pd \in Paddings : store = GenderStore(w, pd)
  /\ partyType = ImportedPartyType
  /\ education = ImportedEducation
  /\ Connected
  /\ InitServer

NextGender == GetGenderTrend \/ NextRequest

SpecGender == InitGender /\ [][NextGender]_vars

InitMargin ==
  /\ \E w \in MarginChoices, pd \in Paddings : store = MarginStore(w, pd)
  /\ partyType = ImportedPartyType
  /\ education = ImportedEducation
  /\ Connected
  /\ InitServer

NextMargin == GetMargins \/ GetClosestContests \/ NextRequest

SpecMargin == InitMargin /\ [][NextMargin]_vars

InitPair ==
  /\ \E w \in PairChoices, pd \in Paddings : store = PairStore(w, pd)
  /\ partyType = ImportedPartyType
  /\ education = ImportedEducation
  /\ Connected
  /\ InitServer

NextPair == GetMargins \/ NextRequest

SpecPair == InitPair /\ [][NextPair]_vars

InitLimit ==
  /\ \E w \in LimitChoices, pd \in Paddings : store = LimitStore(w, pd)
  /\ partyType = ImportedPartyType
  /\ education = ImportedEducation
  /\ Connected
  /\ InitServer

NextLimit == GetMargins \/ GetClosestContests \/ NextRequest

SpecLimit == InitLimit /\ [][NextLimit]_vars

InitKPI ==
  /\ \E w \in KPIChoices, pd \in Paddings : store = KPIStore(w, pd)
  /\ partyType = ImportedPartyType
  /\ education = ImportedEducation
  /\ Connected
  /\ InitServer

NextKPI == GetKPIs \/ NextRequest

SpecKPI == InitKPI /\ [][NextKPI]_vars

InitEducation ==
  /\ \E w \in EducationChoices, pd \in Paddings : store = EducationStore(w, pd)
  /\ partyType = ImportedPartyType
  /\ education \in EducationChoicesOfCandidates
  /\ Connected
  /\ InitServer

NextEducation == GetEducationCorrelation \/ NextRequest

SpecEducation == InitEducation /\ [][NextEducation]_vars

InitNational ==
  /\ \E w \in VoteChoices, pd \in Paddings : store = VoteStore(w, pd)
  /\ partyType \in [Parties -> PartyTypes]
  /\ education = ImportedEducation
  /\ Connected
  /\ InitServer

NextNational == GetNationalVsRegionalVoteShare \/ NextRequest

SpecNational == InitNational /\ [][NextNational]_vars

\* the lists of at most MaxLen numbers of 0..MaxSample
Samples == UNION {[1..n -> 0..MaxSample] : n \in 0..MaxLen}

\* calculateCorrelation(xValues, yValues) is called and returns
Calculate ==
  /\ Idle
  /\ op' = "calculateCorrelation"
  /\ correlation' = calculateCorrelation(xValues, yValues)
  /\ UNCHANGED <<store, partyType, education, restVars, req, resp, status, queries, xValues, yValues, connVars, fanVars>>

\* the function is pure: every pair of lists is a possible call
InitCalc ==
  /\ store = EmptyStore
  /\ partyType = ImportedPartyType
  /\ education = ImportedEducation
  /\ op = "none"
  /\ req = NoQuery
  /\ resp = <<>>
  /\ status = 0
  /\ queries = 0
  /\ xValues \in Samples
  /\ yValues \in Samples
  /\ correlation = NullCorrelation
  /\ Connected
  /\ NoFanOut
  /\ InitRest

NextCalc == Calculate

SpecCalc == InitCalc /\ [][NextCalc]_vars

\* the database file becomes unreadable (locked, lost, damaged) between requests
StoreLost ==
  /\ Idle
  /\ available
  /\ available' = FALSE
  /\ UNCHANGED <<store, partyType, education, restVars, op, req, resp, status, queries, calcVars,
                 isConnected, connects, fanVars>>

\* the database file becomes readable again
StoreRestored ==
  /\ Idle
  /\ ~available
  /\ available' = TRUE
  /\ UNCHANGED <<store, partyType, education, restVars, op, req, resp, status, queries, calcVars,
                 isConnected, connects, fanVars>>

-----------------------------------------------------------------------------
(* getSeatShare and getCorrelation, query by query *)

\* a handler is between its first query and its response
InFlight == op \in {"getSeatShare", "getCorrelation"} /\ status = 0

\* the first query has resolved with one row per group; the handler, were
\* every secondary query to resolve, would answer out
FanOut(name, q, out) ==
  /\ op' = name
  /\ req' = q
  /\ resp' = <<>>
  /\ status' = 0
  /\ queries' = out.queries - Len(out.body)
  /\ pending' = out.body
  /\ promises' = <<>>
  /\ sent' = 0
  /\ UNCHANGED <<store, partyType, education, restVars, calcVars, connVars>>

\* the seat-share requests of the query-by-query runs
FanOutSeatQueries ==
  {q \in SeatShareQueries :
     /\ q.state = ABSENT /\ q.party = ABSENT /\ q.gender = NoText
     /\ q.district = ABSENT /\ q.constituency = ABSENT}

\* getSeatShare up to const winnersPromises = result.rows.map(...)
StartSeatShare ==
  /\ Idle /\ isConnected /\ available
  /\ \E q \in FanOutSeatQueries :
       \E out \in IF validateYear(q) THEN getSeatShare(store, q) ELSE {ValidationFailed} :
         IF out.status = 200 THEN FanOut("getSeatShare", q, out)
         ELSE Answer("getSeatShare", q, out)

\* getCorrelation up to Promise.all(result.rows.map(...))
StartCorrelation ==
  /\ Idle /\ isConnected /\ available
  /\ \E q \in CorrelationQueries :
       \E out \in getCorrelation(store, q) : FanOut("getCorrelation", q, out)

\* map(async (row) => ...) calls queryWithCheck for the next row: its promise
\* is settled before the next one is made, with the row or with the error
SecondaryQuery ==
  /\ InFlight
  /\ pending # <<>>
  /\ LET r == queryWithCheck(isConnected, available)
     IN /\ promises' = Append(promises,
                              IF r.error = NoText
                              THEN [error |-> NoText, value |-> <<Head(pending)>>]
                              ELSE [error |-> r.error, value |-> <<>>])
        /\ isConnected' = r.connected
        /\ connects' = connects + r.attempts
  /\ pending' = Tail(pending)
  /\ queries' = queries + 1
  /\ UNCHANGED <<store, partyType, education, restVars, op, req, resp, status, calcVars, available, sent>>

\* the database file becomes unreadable or readable again while the handler runs
StoreFlickers ==
  /\ InFlight
  /\ available' = ~available
  /\ UNCHANGED <<store, partyType, education, restVars, op, req, resp, status, queries, calcVars,
                 isConnected, connects, fanVars>>

\* the values of the promises ps, in their order
RECURSIVE Values(_)
Values(ps) == IF ps = <<>> THEN <<>> ELSE Head(ps).value \o Values(Tail(ps))

\* a Promise.all that resolves with the values of the promises that resolved
PromiseAll_Settled(ps) ==
  [error |-> NoText, value |-> Values(ps)]

\* Promise.all: rejects with the first rejection, else resolves with every value
PromiseAll(ps) ==
  IF \E i \in 1..Len(ps) : ps[i].error # NoText
  THEN [error |-> ps[CHOOSE i \in 1..Len(ps) :
                       /\ ps[i].error # NoText
                       /\ \A j \in 1..(i - 1) : ps[j].error = NoText].error,
        value |-> <<>>]
  ELSE [error |-> NoText, value |-> Values(ps)]

\* await Promise.all(...) and res.json(...), or the rejection passed by
\* asyncHandler to errorHandler
Respond ==
  /\ InFlight
  /\ pending = <<>>
  /\ LET all == PromiseAll(promises)
         out == IF all.error = NoText THEN Reply(200, all.value, queries)
                ELSE errorHandler(all.error, queries)
     IN /\ resp' = out.body
        /\ status' = out.status
  /\ sent' = sent + 1
  /\ UNCHANGED <<store, partyType, education, restVars, op, req, queries, calcVars, connVars, pending, promises>>

InitFanOut ==
  /\ \/ \E w \in SeatChoices, pd \in Paddings : store = SeatStore(w, pd)
     \/ \E w \in ResultChoices, pd \in Paddings : store = ResultStore(w, pd)
  /\ partyType = ImportedPartyType
  /\ education = ImportedEducation
  /\ Connected
  /\ InitServer

NextFanOut ==
  \/ StartSeatShare
  \/ StartCorrelation
  \/ SecondaryQuery
  \/ StoreFlickers
  \/ Respond
  \/ NextRequest

SpecFanOut == InitFanOut /\ [][NextFanOut]_vars

\* the stores of the connection runs: every slot filled alike, any padding
ConnChoices == {w \in ResultChoices : \A s \in ResultSlots : w[s] = <<1, 1>>}

\* process.nextTick(() => connect()): isConnected is what the first connect()
\* found
InitConn ==
  /\ \E w \in ConnChoices, pd \in Paddings : store = ResultStore(w, pd)
  /\ partyType = ImportedPartyType
  /\ education = ImportedEducation
  /\ available \in BOOLEAN
  /\ isConnected = available
  /\ connects = 0
  /\ InitServer

Init ==
  /\ \E w \in ResultChoices, pd \in Paddings : store = ResultStore(w, pd)
  /\ partyType = ImportedPartyType
  /\ education = ImportedEducation
  /\ Connected
  /\ InitServer

Next ==
  \/ GetYears
  \/ GetConstituenciesList
  \/ GetElections
  \/ GetSeatShare
  \/ GetTurnout
  \/ GetVoteShare
  \/ GetGenderTrend
  \/ GetMargins
  \/ GetKPIs
  \/ GetHighestTurnout
  \/ GetSeatChanges
  \/ GetWomenCandidates
  \/ GetClosestContests
  \/ GetCorrelation
  \/ GetNationalVsRegionalVoteShare
  \/ NextRequest

Spec == Init /\ [][Next]_vars

NextConn == Next \/ StoreLost \/ StoreRestored

SpecConn == InitConn /\ [][NextConn]_vars

\* process.nextTick(() => connect()) has run: db and isConnected are what the
\* first connect() left
InitHandle ==
  /\ store = EmptyStore
  /\ partyType = ImportedPartyType
  /\ education = ImportedEducation
  /\ op = "none"
  /\ req = NoQuery
  /\ resp = <<>>
  /\ status = 0
  /\ queries = 0
  /\ NoCall
  /\ NoFanOut
  /\ available \in BOOLEAN
  /\ \E c \in connect("null", available) : db = c.db /\ isConnected = c.isConnected
  /\ connects = 0
  /\ ran = NoOperation
  /\ InitClient
  /\ statement = NoStatement
  /\ bindings = Unbound

NextHandle ==
  \/ HandleQuery
  \/ HandlePrepare
  \/ HandleClose
  \/ StoreLost
  \/ StoreRestored

SpecHandle == InitHandle /\ [][NextHandle]_vars

\* a visitor opens the dashboard: the server side is left alone, the
\* components have their initial state and the Header has asked for its lists
InitBrowser ==
  /\ store = EmptyStore
  /\ partyType = ImportedPartyType
  /\ education = ImportedEducation
  /\ op = "none"
  /\ req = NoQuery
  /\ resp = <<>>
  /\ status = 0
  /\ queries = 0
  /\ NoCall
  /\ NoFanOut
  /\ Connected
  /\ db = "open"
  /\ ran = NoOperation
  /\ statement = NoStatement
  /\ bindings = Unbound
  /\ url \in IF component = "Header" THEN MountUrls ELSE PlainUrls
  /\ mountParams = url
  /\ rendered = NotRendered
  /\ years = <<>>
  /\ options = "pending"
  /\ loading = TRUE
  /\ data = NoData
  /\ flight = <<>>
  /\ page = 1

\* a controller has built a statement and calls queryWithCheck
InitConvert ==
  /\ store = EmptyStore
  /\ partyType = ImportedPartyType
  /\ education = ImportedEducation
  /\ op = "none"
  /\ req = NoQuery
  /\ resp = <<>>
  /\ status = 0
  /\ queries = 0
  /\ NoCall
  /\ NoFanOut
  /\ Connected
  /\ db = "open"
  /\ ran = NoOperation
  /\ InitClient
  /\ statement \in Statements
  /\ bindings = Unbound

NextConvert == Convert

SpecConvert == InitConvert /\ [][NextConvert]_vars

\* the Header alone, with all its selects
InitHeader ==
  /\ component = "Header"
  /\ InitBrowser

NextHeader ==
  \/ RunEffects
  \/ HeaderLoaded
  \/ HeaderFailed
  \/ ChangeYear
  \/ ChangeState
  \/ ChangeDistrict
  \/ ChangeConstituency
  \/ HandleClearAll

SpecHeader == InitHeader /\ [][NextHeader]_vars

\* one component of the dashboard under the Header; the visitor changes year
\* and state
InitDashboard ==
  /\ component \in Components
  /\ InitBrowser

NextDashboard ==
  \/ RunEffects
  \/ HeaderLoaded
  \/ HeaderFailed
  \/ ChangeYear
  \/ ChangeState
  \/ HandleClearAll
  \/ ResponseThen
  \/ ResponseCatch
  \/ AnalyticsYears
  \/ Previous
  \/ NextPage

SpecDashboard == InitDashboard /\ [][NextDashboard]_vars

\* the same runs when every render has its effects run and every request,
\* the one of the Header included, is answered or fails however often the
\* visitor changes the filters meanwhile
SpecLoading ==
  /\ InitDashboard
  /\ [][NextDashboard]_vars
  /\ WF_vars(RunEffects)
  /\ SF_vars(HeaderLoaded \/ HeaderFailed)
  /\ SF_vars(ResponseThen \/ ResponseCatch \/ AnalyticsYears)

-----------------------------------------------------------------------------
(* What the claims speak of, stated on the store itself *)

\* the year holds at least 1000 result rows
IsValidYear(y) ==
  SumOver({r \in Rows(store) : YearOf(r) = y},
          [r \in {x \in Rows(store) : YearOf(x) = y} |-> store[r]]) >= MinYearRows

\* the position=1 rows of party name n in year y, a valid year
SeatRowsOf(n, y) ==
  {r \in Rows(store) : YearOf(r) = y /\ IsValidYear(y) /\ r.position = 1 /\ PartyOf(r) = n}

\* the number of those rows
SeatsWon(n, y) ==
  SumOver(SeatRowsOf(n, y), [r \in SeatRowsOf(n, y) |-> store[r]])

PartyNames == {PartyName[p] : p \in Parties}

\* the request carries only the year
OnlyYear(q) == q = [NoQuery EXCEPT !.year = q.year]

SeatShareAnswered == op = "getSeatShare" /\ status = 200
SeatChangesAnswered == op = "getSeatChanges" /\ status = 200

\* the number of names listed under one party of a seat-share response
WinnersListed(row) ==
  SumSeq([j \in 1..Len(row.winnersByDistrict) |-> Len(row.winnersByDistrict[j].winners)], 1)

\* C1: in every seat-share response, for every party the names in its
\* winnersByDistrict lists, summed over the districts, number its seats.
C1_WinnersEqualSeats ==
  SeatShareAnswered =>
    \A i \in 1..Len(resp) : WinnersListed(resp[i]) = resp[i].seats

\* a result row the filters of the request select as a winner
SelectedWinner(r, q) ==
  /\ r.position = 1
  /\ YearOf(r) = q.year
  /\ (q.state # ABSENT => StateOf(r) = q.state)
  /\ (q.district # ABSENT /\ q.district \in DOMAIN Constituencies
        => DistrictOf(r) = Constituencies[q.district].name)
  /\ (q.constituency # ABSENT => r.constituency_id = q.constituency)
  /\ (q.party # ABSENT => r.party_id = q.party)
  /\ (q.gender # NoText => SexOf(r) = q.gender)

\* C2: every winner name listed under a party of a seat-share response comes
\* from a position=1 row of that party that satisfies every filter of the
\* request: year, state, district, constituency, party and gender.
C2_WinnersObeyFilters ==
  SeatShareAnswered =>
    \A i \in 1..Len(resp) :
      \A j \in 1..Len(resp[i].winnersByDistrict) :
        \A k \in 1..Len(resp[i].winnersByDistrict[j].winners) :
          \E r \in Rows(store) :
            /\ SelectedWinner(r, req)
            /\ PartyOf(r) = resp[i].party
            /\ DistrictOf(r) = resp[i].winnersByDistrict[j].district
            /\ CandNameOf(r) = resp[i].winnersByDistrict[j].winners[k]

\* C3: seat-share for a valid year and no optional filter lists exactly the
\* parties holding a position=1 row of that year, once each, with seats the
\* number of those rows, in non-increasing order of seats, the seats adding up
\* to the position=1 rows of the year; no such party gives the empty array.
C3_SeatShareOfYear ==
  (SeatShareAnswered /\ OnlyYear(req) /\ IsValidYear(req.year)) =>
    LET winners == {n \in PartyNames : SeatsWon(n, req.year) > 0}
        all == {r \in Rows(store) : YearOf(r) = req.year /\ r.position = 1}
    IN /\ {resp[i].party : i \in 1..Len(resp)} = winners
       /\ Len(resp) = Cardinality(winners)
       /\ \A i \in 1..Len(resp) : resp[i].seats = SeatsWon(resp[i].party, req.year)
       /\ \A i \in 1..(Len(resp) - 1) : resp[i].seats >= resp[i + 1].seats
       /\ SumSeq([i \in 1..Len(resp) |-> resp[i].seats], 1)
            = SumOver(all, [r \in all |-> store[r]])
       /\ (winners = {} => resp = <<>>)

\* C3 witness: two parties of a valid year answered with different seat counts
C3_Witness ==
  /\ SeatShareAnswered /\ OnlyYear(req) /\ IsValidYear(req.year)
  /\ Len(resp) = 2 /\ resp[1].seats > resp[2].seats

\* C4: the parties of a seat-changes response are exactly the parties holding
\* a seat in year1 or in year2, each in exactly one row.
C4_SeatChangesParties ==
  SeatChangesAnswered =>
    /\ {resp[i].party : i \in 1..Len(resp)}
         = {n \in PartyNames : SeatsWon(n, req.year1) > 0 \/ SeatsWon(n, req.year2) > 0}
    /\ \A i, j \in 1..Len(resp) : resp[i].party = resp[j].party => i = j

\* C4 witness: one party seated only in year1 and another only in year2
C4_Witness ==
  /\ SeatChangesAnswered /\ req.year1 # req.year2
  /\ \E i, j \in 1..Len(resp) :
       /\ resp[i].year2_seats = 0 /\ resp[i].year1_seats > 0
       /\ resp[j].year1_seats = 0 /\ resp[j].year2_seats > 0

\* C5: every seat-changes row carries the seats of its party in year1 and in
\* year2 (0 where it won none), change = year2_seats - year1_seats, and the
\* rows, whichever year brought them in, are in non-increasing order of change.
C5_SeatChangesRows ==
  SeatChangesAnswered =>
    /\ \A i \in 1..Len(resp) :
         /\ resp[i].year1_seats = SeatsWon(resp[i].party, req.year1)
         /\ resp[i].year2_seats = SeatsWon(resp[i].party, req.year2)
         /\ resp[i].change = resp[i].year2_seats - resp[i].year1_seats
    /\ \A i \in 1..(Len(resp) - 1) : resp[i].change >= resp[i + 1].change

\* C5 witness: a gainer present only in year2 listed before a loser of year1
C5_Witness ==
  /\ SeatChangesAnswered /\ Len(resp) >= 2
  /\ resp[1].year1_seats = 0 /\ resp[1].change > 0
  /\ resp[Len(resp)].year1_seats > 0 /\ resp[Len(resp)].change < 0
\* the rows of a valid year that the year, state, district, constituency and
\* gender filters of the request match
MatchedBy(q) ==
  {r \in Rows(store) :
     /\ YearOf(r) = q.year /\ IsValidYear(q.year)
     /\ (q.state # ABSENT => StateOf(r) = q.state)
     /\ (q.district # ABSENT /\ q.district \in DOMAIN Constituencies
           => DistrictOf(r) = Constituencies[q.district].name)
     /\ (q.constituency # ABSENT => r.constituency_id = q.constituency)
     /\ (q.gender # NoText => SexOf(r) = q.gender)}

\* the votes of the matched rows that carry votes, added up
MatchedVotes(q) ==
  SumOver({r \in MatchedBy(q) : r.votes # NULL},
          [r \in {x \in MatchedBy(q) : x.votes # NULL} |-> store[r] * r.votes])

VoteShareAggregated ==
  /\ op = "getVoteShare" /\ status = 200
  /\ req.aggregate \in {"true", "1"} /\ req.party = ABSENT

\* the quotients pct[i], i in I, add up to 100
SumTo100(I, pct) ==
  LET D == ProductOf(I, [i \in I |-> pct[i].den])
  IN /\ \A i \in I : pct[i].den > 0
     /\ SumOver(I, [i \in I |-> pct[i].num * (D \div pct[i].den)]) = 100 * D

\* C6 as stated: an aggregated vote-share response to a request without party
\* filter whose filters match at least one result row has vote_share_pct
\* values that sum to 100.
C6_VoteSharePctSumTo100 ==
  VoteShareAggregated /\ MatchedBy(req) # {} =>
    SumTo100(1..Len(resp), [i \in 1..Len(resp) |-> resp[i].vote_share_pct])

\* C6 amended: when the matched rows carry a positive total of votes, the
\* vote_share_pct values sum to 100, every denominator is the votes of the
\* matched rows added up, and the per-party total_votes add up to it.
C6_VoteSharePctSumTo100_Counted ==
  VoteShareAggregated /\ MatchedVotes(req) > 0 =>
    /\ SumTo100(1..Len(resp), [i \in 1..Len(resp) |-> resp[i].vote_share_pct])
    /\ \A i \in 1..Len(resp) :
         resp[i].vote_share_pct.num * MatchedVotes(req) =
           resp[i].total_votes * 100 * resp[i].vote_share_pct.den
    /\ SumSeq([i \in 1..Len(resp) |-> resp[i].total_votes], 1) = MatchedVotes(req)

\* two parties share the votes under a gender filter that leaves other votes out
C6_Witness ==
  /\ VoteShareAggregated /\ MatchedVotes(req) > 0
  /\ req.gender = "F" /\ Len(resp) = 2
  /\ \E r \in Rows(store) : YearOf(r) = req.year /\ r.votes # NULL /\ r.votes > 0
                            /\ r \notin MatchedBy(req)

GenderTrendAnswered == op = "getGenderTrend" /\ status = 200

\* the indexes of the response rows of year y
RowsOfYear(y) == {i \in 1..Len(resp) : resp[i].year = y}

\* C7: in every gender-trend response, for every year present, each percentage
\* is count*100 over the counts of that year's returned rows added up, and the
\* percentages of the year sum to 100, whatever filters were sent.
C7_GenderPctSumTo100 ==
  GenderTrendAnswered =>
    \A k \in 1..Len(resp) :
      LET I == RowsOfYear(resp[k].year)
          total == SumOver(I, [i \in I |-> resp[i].count])
      IN /\ resp[k].percentage.den > 0
         /\ resp[k].percentage.num * total = resp[k].count * 100 * resp[k].percentage.den
         /\ SumTo100(I, [i \in I |-> resp[i].percentage])

\* two years answered, one of them with both sexes, under a party filter
C7_Witness ==
  /\ GenderTrendAnswered /\ req.party # ABSENT
  /\ \E i, j, k \in 1..Len(resp) :
       /\ resp[i].year = resp[j].year /\ resp[i].gender # resp[j].gender
       /\ resp[k].year # resp[i].year

\* a gender filter leaves one sex, which gets 100
C7_WitnessOneSex ==
  /\ GenderTrendAnswered /\ req.gender = "F"
  /\ Len(resp) > 0 /\ \A i \in 1..Len(resp) : resp[i].percentage = Frac(100 * resp[i].count, resp[i].count)

MarginsAnswered == op \in {"getMargins", "getClosestContests"} /\ status = 200

\* a comes no later than b in ascending order, a null before every number
NoLaterThan(a, b) == a = NULL \/ (b # NULL /\ a <= b)

\* C8: the rows of every getMargins and getClosestContests response are
\* non-decreasing in margin_percentage, whatever filters and limit were sent;
\* rows with a null margin_percentage, which getMargins keeps, come first.
C8_MarginsNonDecreasing ==
  MarginsAnswered =>
    \A i, j \in 1..Len(resp) :
      i < j => NoLaterThan(resp[i].margin_percentage, resp[j].margin_percentage)

\* getMargins answers a null margin and two different margins under a limit
C8_Witness ==
  /\ op = "getMargins" /\ status = 200 /\ req.limit # ABSENT /\ Len(resp) = 2
  /\ resp[1].margin_percentage = NULL /\ resp[2].margin_percentage # NULL
  /\ \E r \in Rows(store) : r.position = 1 /\ r.margin_percentage # NULL
                            /\ r.margin_percentage > resp[2].margin_percentage

\* getClosestContests answers contests of different margins
C8_WitnessClosest ==
  /\ op = "getClosestContests" /\ status = 200 /\ Len(resp) >= 2
  /\ resp[1].margin_percentage # resp[Len(resp)].margin_percentage

\* the store without the rows of the years that hold fewer than 1000 rows
ValidYearRows ==
  [r \in {x \in Rows(store) : IsValidYear(YearOf(x))} |-> store[r]]

\* what the handler named name may answer to q over the store st
Handled(name, st, q) ==
  CASE name = "getYears" -> getYears(st)
    [] name = "getSeatShare" -> getSeatShare(st, q)
    [] name = "getTurnout" -> getTurnout(st, q)
    [] name = "getVoteShare" -> getVoteShare(st, q)
    [] name = "getGenderTrend" -> getGenderTrend(st, q)
    [] name = "getMargins" -> getMargins(st, q)
    [] name = "getKPIs" -> getKPIs(st, q)
    [] name = "getHighestTurnout" -> getHighestTurnout(st, q)
    [] name = "getSeatChanges" -> getSeatChanges(st, q)
    [] name = "getWomenCandidates" -> getWomenCandidates(st, q)
    [] name = "getClosestContests" -> getClosestContests(st, q)
    [] name = "getCorrelation" -> getCorrelation(st, q)
    [] name = "getElections" -> getElections(st, q)
    [] name = "getConstituenciesList" -> getConstituenciesList(q)
    [] name = "getNationalVsRegionalVoteShare" ->
         getNationalVsRegionalVoteShare(st, partyType)

\* the endpoints whose response rows carry a year
YearKeyed ==
  {"getYears", "getElections", "getNationalVsRegionalVoteShare", "getGenderTrend", "getMargins", "getWomenCandidates", "getClosestContests"}

\* the response is one the handler gives over the valid-year rows alone, and
\* it names no year that holds fewer than 1000 rows
FromValidYearsOnly ==
  /\ \E out \in Handled(op, ValidYearRows, req) : out.body = resp
  /\ op \in YearKeyed => \A i \in 1..Len(resp) : IsValidYear(resp[i].year)

\* C9: every endpoint answers from the rows of valid years only: its response
\* is the one it gives when the rows of the years with fewer than 1000 rows are
\* removed, and no such year appears in getYears or in a year-keyed response.
C9_OnlyValidYears ==
  op # "none" /\ status = 200 => FromValidYearsOnly

YearRequiredEndpoints ==
  {"getSeatShare", "getTurnout", "getVoteShare", "getKPIs", "getHighestTurnout",
   "getClosestContests"}

NoYearSent == op \in YearRequiredEndpoints /\ req.year = ABSENT

\* C10 as stated: a request without year to seat-share, turnout, vote-share,
\* kpis, highest-turnout or closest-contests gets a 400 and runs no store query.
C10_YearRequired ==
  NoYearSent => status = 400 /\ queries = 0

\* C10 amended: a request without year to seat-share, turnout, vote-share, kpis
\* or highest-turnout gets a 400 and runs no store query; closest-contests
\* takes year as optional, answers 200 and runs its one query over all valid
\* years.
C10_YearRequired_ExceptClosest ==
  NoYearSent =>
    IF op = "getClosestContests"
    THEN /\ status = 200 /\ queries = 1
         /\ \A i \in 1..Len(resp) : IsValidYear(resp[i].year)
    ELSE status = 400 /\ queries = 0

\* a request without year that sends a district, whose lookup never runs
C10_Witness ==
  /\ NoYearSent /\ op = "getKPIs" /\ req.district # ABSENT
  /\ status = 400 /\ queries = 0 /\ Rows(store) # {}

\* closest-contests without year answers a contest
C10_WitnessClosest ==
  /\ NoYearSent /\ op = "getClosestContests" /\ status = 200 /\ queries = 1
  /\ Len(resp) > 0

\* the endpoints of the model that take a year parameter
YearEndpoints ==
  {"getElections", "getSeatShare", "getTurnout", "getVoteShare", "getMargins",
   "getKPIs", "getHighestTurnout", "getClosestContests", "getWomenCandidates",
   "getSeatChanges"}

\* a year that was sent and is not in 1950..2100
OutOfRange(y) == y # ABSENT /\ (y < 1950 \/ y > 2100)

BadYearSent ==
  /\ op \in YearEndpoints
  /\ OutOfRange(req.year) \/ OutOfRange(req.year1) \/ OutOfRange(req.year2)

\* C11: on every endpoint that takes a year (or year1/year2), a year outside
\* 1950..2100 is answered with a 400 before any store query runs.
C11_BadYearRejected ==
  BadYearSent => status = 400 /\ queries = 0

\* the endpoints that take a district parameter
DistrictEndpoints ==
  {"getSeatShare", "getVoteShare", "getGenderTrend", "getMargins", "getKPIs",
   "getConstituenciesList"}

\* a validated request that carries a district id no constituency has
UnknownDistrictSent ==
  /\ op \in DistrictEndpoints
  /\ req.district # ABSENT /\ req.district \notin DOMAIN Constituencies
  /\ validateYear(req) /\ validatePagination(req)

\* C12: on every endpoint with a district filter, a district id that matches
\* no constituency changes nothing: the answer is one the same request
\* without the district gets, with the same status.
C12_UnknownDistrictNoOp ==
  UnknownDistrictSent =>
    \E out \in Handled(op, store, [req EXCEPT !.district = ABSENT]) :
      out.body = resp /\ out.status = status

\* an unknown district answered with rows, where a known one would filter
C12_Witness ==
  /\ UnknownDistrictSent /\ status = 200 /\ Len(resp) > 0
  /\ \A out \in Handled(op, store, [req EXCEPT !.district = 1]) : out.body # resp

\* the constituencies the district and constituency parameters of q select:
\* every one that bears the name of constituency q.district, and of these
\* only the one with id q.constituency when that is sent
ConstituenciesSelected(q) ==
  {c \in DOMAIN Constituencies :
     /\ (q.district # ABSENT /\ q.district \in DOMAIN Constituencies
           => Constituencies[c].name = Constituencies[q.district].name)
     /\ (q.constituency # ABSENT => c = q.constituency)}

\* the position=1 rows of party name n that a seat-share request q counts
SeatRowsSelected(n, q) ==
  {r \in SeatRowsOf(n, q.year) :
     /\ r.constituency_id \in ConstituenciesSelected(q)
     /\ (q.state # ABSENT => StateOf(r) = q.state)
     /\ (q.party # ABSENT => r.party_id = q.party)
     /\ (q.gender # NoText => SexOf(r) = q.gender)}

\* the seats a seat-share response states for party name n, 0 when not listed
SeatsStated(n) ==
  SumSeq([i \in 1..Len(resp) |-> IF resp[i].party = n THEN resp[i].seats ELSE 0], 1)

\* C13: the seats of a seat-share response are counted over the rows of every
\* constituency that bears the district's name (whatever its id, number or
\* state), over the one constituency with the given id when a constituency
\* is sent, and over their intersection when both are sent: at most one
\* constituency, and none when its name is not the district's.
C13_DistrictAndConstituency ==
  SeatShareAnswered =>
    /\ \A n \in PartyNames :
         SeatsStated(n) = SumOver(SeatRowsSelected(n, req),
                                  [r \in SeatRowsSelected(n, req) |-> store[r]])
    /\ (req.district \in DOMAIN Constituencies /\ req.constituency \in DOMAIN Constituencies
          => /\ Cardinality(ConstituenciesSelected(req)) <= 1
             /\ (Constituencies[req.district].name # Constituencies[req.constituency].name
                   => resp = <<>>))

\* a district alone: seats counted from a constituency of another id and state
C13_Witness ==
  /\ SeatShareAnswered /\ req.district = 1 /\ req.constituency = ABSENT
  /\ req.state = ABSENT /\ req.party = ABSENT /\ req.gender = NoText
  /\ \E r \in Rows(store) :
       /\ r.constituency_id = 2 /\ r.position = 1 /\ YearOf(r) = req.year
       /\ \E i \in 1..Len(resp) : resp[i].party = PartyOf(r) /\ resp[i].seats >= 2

\* district and constituency of different names: nothing, though each alone
\* selects a winner row
C13_WitnessConflict ==
  /\ SeatShareAnswered /\ req.district = 3 /\ req.constituency = 1
  /\ resp = <<>>
  /\ \E r \in Rows(store) :
       r.constituency_id = 1 /\ r.position = 1 /\ YearOf(r) = req.year /\ IsValidYear(req.year)

Calculated == op = "calculateCorrelation"

\* every number of the list s is the same
Flat(s) == \A i, j \in 1..Len(s) : s[i] = s[j]

\* (n*Sxx - Sx^2) * (n*Syy - Sy^2) of two lists of the same length
VarianceProduct(xs, ys) ==
  LET n == Len(xs)
  IN (n * SumTo([i \in 1..n |-> xs[i] * xs[i]], n) - SumTo(xs, n) * SumTo(xs, n))
     * (n * SumTo([i \in 1..n |-> ys[i] * ys[i]], n) - SumTo(ys, n) * SumTo(ys, n))

\* C14: calculateCorrelation returns null exactly when the sample is empty,
\* the two lists differ in length, or (n*Sxx - Sx^2)*(n*Syy - Sy^2) is zero,
\* which is when one of the lists repeats a single number; for every other
\* input it returns a number.
C14_NullExactlyWhenDegenerate ==
  Calculated =>
    LET degenerate == \/ Len(xValues) = 0
                      \/ Len(xValues) # Len(yValues)
                      \/ VarianceProduct(xValues, yValues) = 0
    IN /\ (correlation = NullCorrelation) <=> degenerate
       /\ correlation # NullCorrelation => correlation.den2 > 0
       /\ Len(xValues) = Len(yValues)
            => (VarianceProduct(xValues, yValues) = 0 <=> Flat(xValues) \/ Flat(yValues))

\* null for three equal numbers against three numbers that vary
C14_Witness ==
  /\ Calculated /\ correlation = NullCorrelation
  /\ Len(xValues) = 3 /\ Len(yValues) = 3 /\ Flat(xValues) /\ ~Flat(yValues)

\* a number for two lists that both vary
C14_WitnessNumber ==
  /\ Calculated /\ correlation # NullCorrelation
  /\ Len(xValues) = 3 /\ correlation.num = 0

\* C15: for equal-length non-empty lists that both vary, the value r that
\* calculateCorrelation returns has -1 <= r <= 1:
\* (n*Sxy - Sx*Sy)^2 <= (n*Sxx - Sx^2)*(n*Syy - Sy^2).
C15_CorrelationWithinUnit ==
  Calculated /\ correlation # NullCorrelation =>
    correlation.num * correlation.num <= correlation.den2

\* r strictly between 0 and 1
C15_Witness ==
  /\ Calculated /\ correlation # NullCorrelation
  /\ correlation.num > 0
  /\ correlation.num * correlation.num < correlation.den2

\* r = -1
C15_WitnessMinusOne ==
  /\ Calculated /\ correlation # NullCorrelation
  /\ correlation.num < 0
  /\ correlation.num * correlation.num = correlation.den2

NationalAnswered == op = "getNationalVsRegionalVoteShare" /\ status = 200

\* the bucket the claim assigns to a party type: National when it contains
\* 'national' in any case, else Regional when it contains 'regional', else
\* (NULL included) Other
BucketOf(t) ==
  IF t \in {"National Party", "Regional (ex-National)"} THEN "National"
  ELSE IF t = "regional" THEN "Regional"
  ELSE "Other"

Buckets == {"National", "Regional", "Other"}

\* the rows with positive votes of year y, a valid year
PositiveRows(y) ==
  {r \in Rows(store) : YearOf(r) = y /\ IsValidYear(y) /\ r.votes # NULL /\ r.votes > 0}

\* the votes of the rows of R, every copy counted
VotesOf(R) == SumOver(R, [r \in R |-> store[r] * r.votes])

\* the total a response states for bucket b of year y, 0 when not listed
BucketStated(y, b) ==
  SumSeq([i \in 1..Len(resp) |->
            IF resp[i].year = y /\ resp[i].party_type = b THEN resp[i].total_votes ELSE 0], 1)

C16_WitnessBothWords ==
  /\ NationalAnswered /\ Len(resp) = 1 /\ resp[1].party_type = "National"
  /\ \A p \in Parties : partyType[p] = "Regional (ex-National)"

\* a request was answered by a handler that called queryWithCheck
NeededStore == op \notin {"none", "calculateCorrelation"} /\ queries > 0

\* C18: a request that needs the store while it cannot be opened or queried
\* fails with 503 and the code DB_NOT_CONNECTED; no request makes more than
\* one connection attempt; and with the store available the request succeeds.
C18_UnavailableIs503 ==
  NeededStore =>
    /\ (~available => status = 503 /\ resp[1].code = "DB_NOT_CONNECTED")
    /\ connects <= 1
    /\ (available => status = 200)

\* the part of C18 on the connection attempts of one request
C18_OneConnectAttempt == NeededStore => connects <= 1

\* the part of C18 on the outcome while the store cannot be read
C18_FailsWith503 ==
  NeededStore /\ ~available => status = 503 /\ resp[1].code = "DB_NOT_CONNECTED"

\* the part of C18 on recovery: with the store readable the request succeeds
C18_Recovers == NeededStore /\ available => status = 200 /\ isConnected

\* a request answered after a failed start and a restored store
C18_WitnessRecovered ==
  NeededStore /\ available /\ connects = 1 /\ status = 200 /\ Len(resp) > 0

\* a fan-out request has been answered
FanOutAnswered == op \in {"getSeatShare", "getCorrelation"} /\ status # 0 /\ queries > 0

Rejected == {i \in 1..Len(promises) : promises[i].error # NoText}

\* C17: getSeatShare and getCorrelation write their response only when every
\* per-group secondary query has settled; the response is the only one of
\* the request; when a secondary query failed it is the error response of
\* the first failure and holds no result row, else it is every group's row.
C17_AllOrNothing ==
  /\ InFlight => sent = 0 /\ resp = <<>>
  /\ FanOutAnswered =>
       /\ pending = <<>>
       /\ sent = 1
       /\ Rejected = {} => status = 200 /\ resp = Values(promises)
       /\ Rejected # {} =>
            /\ status >= 500
            /\ Len(resp) = 1
            /\ \E i \in Rejected : /\ resp[1].code = promises[i].error
                                   /\ \A j \in Rejected : i <= j
            /\ \A i \in 1..Len(promises) :
                 \A k \in 1..Len(promises[i].value) : promises[i].value[k] # resp[1]

\* the first of two secondary queries resolved, the second failed: one error
C17_Witness ==
  /\ FanOutAnswered /\ Len(promises) = 2
  /\ promises[1].error = NoText /\ promises[2].error # NoText
  /\ status = 500 /\ sent = 1

\* the first failed, the second resolved after the file was readable again
C17_WitnessFirstFails ==
  /\ FanOutAnswered /\ Len(promises) = 2 /\ op = "getSeatShare"
  /\ promises[1].error # NoText /\ promises[2].error = NoText
  /\ status = 500 /\ sent = 1

\* C19: no request changes a row of the store: the results and the party
\* types after any step are those before it (the other tables are fixed).
C19_ReadOnly == [][store' = store /\ partyType' = partyType]_vars

\* a request answered from several queries over a store that holds contest rows
C19_Witness ==
  /\ op # "none" /\ status = 200 /\ queries > 1 /\ Len(resp) > 0
  /\ \E r \in Rows(store) : r.position = 1

\* the aggregations C20 names
DefaultingEndpoints ==
  {"getSeatShare", "getVoteShare", "getGenderTrend", "getMargins", "getSeatChanges",
   "getHighestTurnout", "getKPIs"}

\* the request passed its validators and carries the year its handler requires
WellFormed ==
  /\ validateYear(req) /\ validatePagination(req)
  /\ (op \in {"getSeatShare", "getVoteShare", "getHighestTurnout", "getKPIs"}
        => req.year # ABSENT)
  /\ (op = "getSeatChanges" => validateSeatChanges(req))

\* the result rows of the valid years that every filter sent with q matches
FilterMatches(q) ==
  {r \in Rows(store) :
     /\ (q.year # ABSENT => YearOf(r) = q.year)
     /\ (q.year1 # ABSENT \/ q.year2 # ABSENT => YearOf(r) \in {q.year1, q.year2})
     /\ (q.state # ABSENT => StateOf(r) = q.state)
     /\ (q.district # ABSENT /\ q.district \in DOMAIN Constituencies
           => DistrictOf(r) = Constituencies[q.district].name)
     /\ (q.constituency # ABSENT => r.constituency_id = q.constituency)
     /\ (q.party # ABSENT => r.party_id = q.party)
     /\ (q.gender # NoText => SexOf(r) = q.gender)
     /\ IsValidYear(YearOf(r))}

\* the filters of the request that its handler applies: the by-state mode
\* of vote-share reads the year and the party only, the aggregated mode
\* every filter but the party
AppliedFilters ==
  IF op # "getVoteShare" THEN req
  ELSE IF req.aggregate \in {"true", "1"} THEN [req EXCEPT !.party = ABSENT]
  ELSE [NoQuery EXCEPT !.year = req.year, !.party = req.party]

NothingMatches ==
  op \in DefaultingEndpoints /\ WellFormed /\ FilterMatches(AppliedFilters) = {}

\* C20: when no result row matches the filters of a request, seat-share,
\* vote-share, gender-trend, margins and seat-changes answer 200 with an
\* empty array, highest-turnout answers 200 with null (the empty body), and
\* kpis answers 200 with total_seats 0, overall_turnout 0 and
\* women_candidates_pct 0.
C20_EmptyIsNotAnError ==
  NothingMatches =>
    /\ status = 200
    /\ IF op = "getKPIs"
       THEN resp = Object([total_seats |-> 0, overall_turnout |-> Frac(0, 1),
                           women_candidates_pct |-> Frac(0, 1)])
       ELSE resp = <<>>

\* kpis of a year without rows, asked of a store that holds rows of another year
C20_Witness ==
  /\ NothingMatches /\ op = "getKPIs" /\ status = 200
  /\ \E r \in Rows(store) : IsValidYear(YearOf(r))

\* the aggregated vote share of a constituency without rows in a valid year
C20_WitnessVoteShare ==
  /\ NothingMatches /\ op = "getVoteShare" /\ req.aggregate = "true"
  /\ req.constituency # ABSENT /\ IsValidYear(req.year) /\ status = 200

-----------------------------------------------------------------------------
(* getMargins: the pairing of winner and runner-up *)

\* a - b in SQL: null when either operand is null
Minus(a, b) == IF a = NULL \/ b = NULL THEN NULL ELSE a - b

\* the row joins a position=1 row and a position=2 row of one contest of the
\* store and states their votes and the difference of them
PairedInStore(row) ==
  \E r1, r2 \in Rows(store) :
    /\ r1.position = 1 /\ r2.position = 2
    /\ r1.election_id = r2.election_id /\ r1.constituency_id = r2.constituency_id
    /\ row.year = YearOf(r1) /\ row.state_name = StateNameOf(r1)
    /\ row.constituency_name = DistrictOf(r1)
    /\ row.winner = CandNameOf(r1) /\ row.winner_votes = r1.votes
    /\ row.runner_up = CandNameOf(r2) /\ row.runner_up_votes = r2.votes
    /\ row.margin = Minus(r1.votes, r2.votes)

\* the rows of the response that speak of contest s = (election, constituency);
\* the contests of PairContests differ in year, state and name
RowsOfContest(s) ==
  {i \in 1..Len(resp) :
     /\ resp[i].year = Elections[s[1]]
     /\ resp[i].state_name = StateName[Constituencies[s[2]].state_id]
     /\ resp[i].constituency_name = Constituencies[s[2]].name}

\* the contest holds a row at position pos
HasPosition(s, pos) ==
  \E r \in Rows(store) :
    r.election_id = s[1] /\ r.constituency_id = s[2] /\ r.position = pos

\* a request to /margins that passed validateYear and validatePagination
MarginsAsked == op = "getMargins" /\ validateYear(req) /\ validatePagination(req)

\* the part of C21 on the pairing: every row joins a winner row and a
\* runner-up row of one contest with margin = winner votes - runner-up votes,
\* and a contest lacking either row gives no row and no error
C21_PairsWinnerWithRunnerUp ==
  MarginsAsked =>
    /\ status = 200
    /\ \A i \in 1..Len(resp) : PairedInStore(resp[i])
    /\ \A s \in PairContests :
         ~(HasPosition(s, 1) /\ HasPosition(s, 2)) => RowsOfContest(s) = {}

\* the part of C21 on the number of rows: a contest contributes at most one
C21_OneRowPerContest ==
  MarginsAsked => \A s \in PairContests : Cardinality(RowsOfContest(s)) <= 1

\* C21: every row returned by getMargins pairs a position=1 row with a
\* position=2 row of the same (election_id, constituency_id) and reports
\* margin = winner votes - runner-up votes; a contest lacking either row
\* contributes no row and causes no error, and a contest having both
\* contributes at most one row.
C21_MarginsPairContests ==
  C21_PairsWinnerWithRunnerUp /\ C21_OneRowPerContest

\* a contest with a winner and a runner-up is answered with its one row and a
\* non-null margin, beside a contest that lacks its runner-up
C21_WitnessPaired ==
  /\ MarginsAsked /\ status = 200 /\ Len(resp) = 1
  /\ resp[1].margin # NULL /\ resp[1].margin = resp[1].winner_votes - resp[1].runner_up_votes
  /\ \E s \in PairContests : HasPosition(s, 1) /\ ~HasPosition(s, 2)
  /\ req.limit = ABSENT /\ req.year = ABSENT

\* a contest with two position=1 rows and a runner-up is answered twice
C21_WitnessTwice ==
  /\ MarginsAsked /\ status = 200
  /\ \E s \in PairContests : Cardinality(RowsOfContest(s)) = 2

-----------------------------------------------------------------------------
(* getClosestContests and getMargins: the number of rows *)

\* the pairs of a position=1 row with a margin_percentage and a position=2
\* row of its contest, in a valid year and in the year asked for
Qualifying ==
  {x \in Rows(store) \X Rows(store) :
     /\ x[1].position = 1 /\ x[2].position = 2
     /\ x[1].election_id = x[2].election_id
     /\ x[1].constituency_id = x[2].constituency_id
     /\ x[1].margin_percentage # NULL
     /\ IsValidYear(YearOf(x[1]))
     /\ (req.year # ABSENT => YearOf(x[1]) = req.year)}

\* how many of them have the margin_percentage m
QualifyingAt(m) ==
  LET Q == {x \in Qualifying : x[1].margin_percentage = m}
  IN SumOver(Q, [x \in Q |-> store[x[1]] * store[x[2]]])

\* how many rows of the response have it
AnsweredAt(m) == Cardinality({i \in 1..Len(resp) : resp[i].margin_percentage = m})

QualifyingMargins == {x[1].margin_percentage : x \in Qualifying}

ClosestAnswered == op = "getClosestContests" /\ status = 200

\* C22: getClosestContests returns at most 10 rows whatever limit the caller
\* supplies, never a row whose margin_percentage is null, and its rows are the
\* 10 (or fewer) qualifying contests with the smallest margin_percentage: as
\* many as qualify up to 10, each a qualifying contest, and every qualifying
\* contest with a margin below one that is returned is returned too.
\* getMargins returns at most limit rows, 10 when limit is absent.
C22_LimitsAndClosest ==
  /\ ClosestAnswered =>
       /\ Len(resp) <= 10
       /\ \A i \in 1..Len(resp) : resp[i].margin_percentage # NULL
       /\ \/ Len(resp) = 10
          \/ Len(resp) = SumOver(QualifyingMargins,
                                 [m \in QualifyingMargins |-> QualifyingAt(m)])
       /\ \A i \in 1..Len(resp) :
            \E x \in Qualifying :
              /\ resp[i].margin_percentage = x[1].margin_percentage
              /\ resp[i].year = YearOf(x[1])
              /\ resp[i].state_name = StateNameOf(x[1])
              /\ resp[i].constituency_name = DistrictOf(x[1])
       /\ \A m \in QualifyingMargins :
            /\ AnsweredAt(m) <= QualifyingAt(m)
            /\ (\E i \in 1..Len(resp) : resp[i].margin_percentage > m)
                 => AnsweredAt(m) = QualifyingAt(m)
  /\ (op = "getMargins" /\ status = 200) =>
       Len(resp) <= (IF req.limit = ABSENT THEN 10 ELSE req.limit)

\* eleven contests qualify and one more has no margin_percentage; the caller
\* asks for one row and gets the ten closest
C22_Witness ==
  /\ ClosestAnswered /\ req.limit = 1 /\ Len(resp) = 10
  /\ SumOver(QualifyingMargins, [m \in QualifyingMargins |-> QualifyingAt(m)]) > 10
  /\ \E r \in Rows(store) : r.position = 1 /\ r.margin_percentage = NULL
  /\ \E m \in QualifyingMargins : AnsweredAt(m) = 0

\* getMargins without a limit answers ten rows of more that match
C22_WitnessMargins ==
  /\ op = "getMargins" /\ status = 200 /\ req.limit = ABSENT /\ Len(resp) = 10
  /\ Cardinality({r \in Rows(store) : r.position = 1}) > 10

\* getMargins with limit=2 answers two rows of more that match
C22_WitnessMarginsLimit ==
  /\ op = "getMargins" /\ status = 200 /\ req.limit = 2 /\ Len(resp) = 2
  /\ Cardinality({r \in Rows(store) : r.position = 1}) > 2
  /\ req.year = ABSENT /\ req.state = ABSENT /\ req.district = ABSENT
  /\ req.constituency = ABSENT

-----------------------------------------------------------------------------
(* getKPIs: three numbers under one filter *)

\* the result rows of the year asked for, a valid year, that match every
\* filter sent; an unknown district id filters nothing
KPIMatching ==
  {r \in Rows(store) :
     /\ YearOf(r) = req.year /\ IsValidYear(req.year)
     /\ (req.state # ABSENT => StateOf(r) = req.state)
     /\ (req.district \in DOMAIN Constituencies
           => DistrictOf(r) = Constituencies[req.district].name)
     /\ (req.constituency # ABSENT => r.constituency_id = req.constituency)
     /\ (req.gender # NoText => SexOf(r) = req.gender)}

\* the number of rows of R, copies counted
RowCount(R) == SumOver(R, [r \in R |-> store[r]])

\* the quotient x is n / d, or 0 when d is 0
IsQuotient(x, n, d) ==
  IF d = 0 THEN x.num = 0 ELSE x.den # 0 /\ x.num * d = n * x.den

KPIAnswered == op = "getKPIs" /\ status = 200

\* C23: getKPIs computes its three numbers under one shared filter set with
\* independent null exclusion: total_seats is the number of distinct
\* constituencies having a matching position=1 row, overall_turnout is the
\* average turnout_percentage over the matching rows with non-null turnout,
\* and women_candidates_pct is 100 * (matching rows with sex 'F') / (matching
\* rows with non-null sex); a number without rows to take it from is 0.
C23_KPIsShareTheFilter ==
  KPIAnswered =>
    LET T == {r \in KPIMatching : r.turnout_percentage # NULL}
        S == {r \in KPIMatching : SexOf(r) # NullText}
    IN /\ Len(resp) = 1
       /\ resp[1].total_seats =
            Cardinality({r.constituency_id : r \in {x \in KPIMatching : x.position = 1}})
       /\ IsQuotient(resp[1].overall_turnout,
                     SumOver(T, [r \in T |-> store[r] * r.turnout_percentage]),
                     RowCount(T))
       /\ IsQuotient(resp[1].women_candidates_pct,
                     100 * RowCount({r \in S : SexOf(r) = "F"}), RowCount(S))

\* a row with a turnout and no sex, a row with a sex and no turnout, and two
\* won polls of one constituency: each number leaves out its own rows only
C23_Witness ==
  /\ KPIAnswered /\ req.state = ABSENT /\ req.gender = NoText
  /\ req.district = ABSENT /\ req.constituency = ABSENT
  /\ \E r \in KPIMatching : r.turnout_percentage # NULL /\ SexOf(r) = NullText
  /\ \E r \in KPIMatching : r.turnout_percentage = NULL /\ SexOf(r) = "F"
  /\ Cardinality({r \in KPIMatching : r.position = 1}) = 2
  /\ resp[1].total_seats = 1
  /\ resp[1].overall_turnout.num > 0 /\ resp[1].women_candidates_pct.num > 0

\* the filters narrow all three numbers: gender=F in one state
C23_WitnessFiltered ==
  /\ KPIAnswered /\ req.state # ABSENT /\ req.gender = "F" /\ req.constituency # ABSENT
  /\ resp[1].total_seats = 1
  /\ resp[1].women_candidates_pct.num = 100 * resp[1].women_candidates_pct.den
  /\ \E r \in Rows(store) : r \notin KPIMatching /\ YearOf(r) = req.year /\ r.position = 1

-----------------------------------------------------------------------------
(* getEducationCorrelation: win rate by education level *)

\* the education level a stored text names, NoText when it names none
LevelOf(t) ==
  CASE t \in {"Graduate", " Graduate "} -> "Graduate"
    [] t = "10th Pass" -> "10th Pass"
    [] OTHER -> NoText

\* the result rows of the valid years whose candidate has an education level
RowsWithLevel ==
  {r \in Rows(store) :
     IsValidYear(YearOf(r)) /\ LevelOf(education[r.candidate_id]) # NoText}

EducationAnswered == op = "getEducationCorrelation" /\ status = 200

\* the response states one group for every level of the rows R, with the
\* rows, the winners and the win rate of the level, by non-increasing win rate
GroupsStated(R) ==
  /\ {resp[i].education : i \in 1..Len(resp)}
       = {LevelOf(education[r.candidate_id]) : r \in R}
  /\ \A i, j \in 1..Len(resp) : resp[i].education = resp[j].education => i = j
  /\ \A i \in 1..Len(resp) :
       LET G == {r \in R : LevelOf(education[r.candidate_id]) = resp[i].education}
           W == {r \in G : r.position = 1}
       IN /\ resp[i].education \notin {"Unknown", "", "  "}
          /\ resp[i].total_candidates = RowCount(G)
          /\ resp[i].winners = RowCount(W)
          /\ IsQuotient(resp[i].win_rate, RowCount(W) * 100, RowCount(G))
          /\ resp[i].win_rate.num >= 0
          /\ resp[i].win_rate.num <= 100 * resp[i].win_rate.den
  /\ \A i, j \in 1..Len(resp) :
       i < j => resp[i].win_rate.num * resp[j].win_rate.den
                  >= resp[j].win_rate.num * resp[i].win_rate.den

\* C24 as stated: getEducationCorrelation groups every result row of a valid
\* year by the candidate's trimmed myneta_education, excluding null, empty and
\* whitespace-only values entirely (no 'Unknown' group); total_candidates
\* counts all result rows of the group, winners those with position=1,
\* win_rate = winners*100/total_candidates within 0..100, and the groups come
\* in non-increasing win_rate order.
C24_EveryRowGrouped == EducationAnswered => GroupsStated(RowsWithLevel)

\* C24 amended: the same over the result rows that have a position; a row
\* whose position is null belongs to no group and is counted nowhere.
C24_RankedRowsGrouped ==
  EducationAnswered => GroupsStated({r \in RowsWithLevel : r.position # NULL})

\* two groups of different win rates, one of them holding texts that differ
\* only in the blanks around them
C24_Witness ==
  /\ EducationAnswered /\ Len(resp) = 2
  /\ resp[1].win_rate.num * resp[2].win_rate.den
       > resp[2].win_rate.num * resp[1].win_rate.den
  /\ \E r1, r2 \in RowsWithLevel :
       /\ education[r1.candidate_id] = "Graduate"
       /\ education[r2.candidate_id] = " Graduate "
  /\ \E i \in 1..Len(resp) : resp[i].education = "Graduate" /\ resp[i].total_candidates = 2

\* rows of candidates with a blank and with a null education are left out of
\* the one group that is answered
C24_WitnessBlank ==
  /\ EducationAnswered /\ Len(resp) = 1
  /\ \E r \in Rows(store) : IsValidYear(YearOf(r)) /\ education[r.candidate_id] = "  "
  /\ \E r \in Rows(store) : IsValidYear(YearOf(r)) /\ education[r.candidate_id] = NullText

\* a row without a position whose candidate has an education level: the
\* response counts it nowhere
C24_WitnessNoPosition ==
  /\ EducationAnswered
  /\ \E r \in RowsWithLevel :
       /\ r.position = NULL
       /\ \A i \in 1..Len(resp) : resp[i].education # LevelOf(education[r.candidate_id])

-----------------------------------------------------------------------------
(* connection.js: what a handle an operation runs on *)

\* an exported operation that prepares or runs a statement has been called
StatementOperation == ran.operation \in {"queryWithCheck", "prepare"}

\* C25: no exported operation of the connection module (query/queryWithCheck,
\* prepare, close) ever runs a statement on a null, closed or unverified
\* database handle: an operation either executes on an open handle with
\* isConnected true or fails with the DB_NOT_CONNECTED error, also after
\* close() and after a failed connect().
C25_OnlyOnOpenHandle ==
  StatementOperation =>
    \/ ran.handle = "open" /\ ran.connected
    \/ ran.error = "DB_NOT_CONNECTED"

\* the part of C25 that holds: queryWithCheck runs on a verified handle or
\* rejects with DB_NOT_CONNECTED
C25_QueryOnlyOnOpenHandle ==
  ran.operation = "queryWithCheck" =>
    \/ ran.handle = "open" /\ ran.connected
    \/ ran.error = "DB_NOT_CONNECTED" /\ ran.handle = "none"

\* prepare after close() with the file unreadable: db.prepare on the closed
\* handle
C25_WitnessPrepareOnClosed ==
  ran.operation = "prepare" /\ ran.handle = "closed" /\ ran.error = "TypeError"

\* queryWithCheck after close() reconnects and runs on the new handle
C25_WitnessQueryReconnects ==
  /\ ran.operation = "queryWithCheck" /\ connects = 1
  /\ ran.handle = "open" /\ ran.error = NoText

-----------------------------------------------------------------------------
(* The dashboard: what a component shows and the parameters of the URL *)

\* the last request in flight is answered and the answer replaces the data
LastAnswered == flight # <<>> /\ flight' = <<>> /\ data' # data

\* C26: after the visitor changes filters a component ends up showing the
\* data of the most recent selection: with two requests in flight, answered
\* in either order, the data shown once both are answered is that of the
\* selection in the URL, never that of the older request.
C26_LatestSelectionShown ==
  [][(Fetches(component, url) /\ LastAnswered)
       => data'.of = Deps(component, url)]_vars

\* C27: the loading flag of every component becomes false again and again,
\* after the mount and after every change of a filter, when every request is
\* answered or fails; also without a year, with a year outside 1991..2019, and
\* when the years endpoint has no year to select.
C27_LoadingEnds == []<>(~loading)

\* the components that clear loading whatever the URL holds
C27_LoadingEndsWhereFetched ==
  (component \in {"MarginsTable", "GenderTrendChart"}) => []<>(~loading)

\* C28: in MarginsTable, whatever Previous/Next clicks and replacements of the
\* data happened, 1 <= page <= max(1, totalPages), so that no empty page is
\* shown while rows exist.
C28_PageWithinPages ==
  component = "MarginsTable" =>
    /\ 1 <= page
    /\ page <= (IF TotalPages > 1 THEN TotalPages ELSE 1)

\* the paging keeps the page within the pages as long as the data stay
C28_ClicksKeepPageWithin ==
  [][(data' = data /\ page' # page) => (1 <= page' /\ page' <= TotalPages)]_vars

\* the table is at a page beyond its rows after new data arrived
C28_WitnessEmptyPage ==
  /\ component = "MarginsTable" /\ ~loading /\ Settled
  /\ data.length > 0 /\ (page - 1) * itemsPerPage >= data.length

\* the URL holds district or constituency without a state
Orphaned(u) ==
  u.state = ABSENT /\ (u.district # ABSENT \/ u.constituency # ABSENT)

\* a handler of the Header, not the answer to its request, changes the URL
HandlerStep == Settled /\ url' # url /\ options' = options

C29_WitnessDistrictCleared ==
  /\ Settled /\ options = "loaded"
  /\ url.state # ABSENT /\ url.district = ABSENT /\ url.constituency # ABSENT
  /\ mountParams = NoParams

-----------------------------------------------------------------------------
(* convertToSQLite: the parameters bound to the ? marks *)

\* the statement at hand has been converted
Converted == bindings # Unbound

\* the i-th ? of the converted text stands where $k stood and the i-th bound
\* parameter is params[k]
BoundInOrder ==
  /\ Len(bindings) = Len(statement.marks)
  /\ \A i \in DOMAIN statement.marks :
       statement.marks[i] # LiteralMark =>
         bindings[i] = statement.params[statement.marks[i]]

\* C30: convertToSQLite turns every $k into a ? and returns the list whose
\* i-th entry is params[k_i - 1], k_i the number of the i-th placeholder in
\* textual order, so that repeated and out-of-order placeholders bind the
\* values meant and as many parameters are bound as there are ? marks, for
\* every statement and parameter list the controllers build.
C30_BoundInTextualOrder == Converted => BoundInOrder

\* the same for the statements whose text holds no ? of its own
C30_PlaceholdersBoundInOrder ==
  (Converted /\ Placeholders(statement.marks) = statement.marks) => BoundInOrder

\* the statement of getSeatChanges for two different years has been converted
C30_WitnessSeatChanges ==
  /\ Converted /\ statement.marks = SeatChangesPlaceholders
  /\ statement.params = <<2014, 2019>> /\ bindings = <<2014, 2019, 2019, 2014>>

\* the statement of getVoteShareByParty has been converted: two ? marks and
\* one parameter, the total of the votes
C30_WitnessVoteShareByParty ==
  /\ Converted /\ statement.marks = VoteShareByPartyMarks
  /\ Len(bindings) = 1 /\ bindings[1] = statement.params[1]

====
